---------------------------- MODULE Spec2Model ----------------------------
(***************************************************************************)
(* Seoul_NightSpots_Agent: the origin-resolution -> ranking -> map ->      *)
(* answer pipeline (app/agents/graph.py, app/agents/nodes.py) and the      *)
(* geodesic ranking it rests on (app/services/geo.py).                     *)
(*                                                                         *)
(* Representation of Python values                                         *)
(*   numbers and what may stand where a number is expected are records     *)
(*   [t, v]:  num (a finite float/int, v scaled), nan, inf, none (None),   *)
(*   strnum (a string that float() parses to v), strnan ("nan"),           *)
(*   strinf ("inf"), strbad (a string float() rejects, "abc"),             *)
(*   strempty (""), raise (the conversion raised).                         *)
(*   Degrees are scaled by 10^4 (37.5512 is 375512); kilometres by 10^5    *)
(*   (1.001 km is 100100); topn is a plain integer.                       *)
(*   Text is a sequence of one-character strings; None for text is NoText. *)
(*   Hangul syllables are written as the tokens "ko_...".                  *)
(***************************************************************************)
EXTENDS Integers, Sequences, FiniteSets, TLC

VARIABLES
    entry,      \* which convenience function was called: run_o_to_d, run_c_to_d
    args,       \* the keyword arguments of that call
    env,        \* availability of the collaborators during the run
    pc,         \* position of the run
    state,      \* the graph state handed from node to node (key -> value)
    trace,      \* nodes executed so far in this run, in order
    err,        \* the exception that left the run, or NoErr
    result,     \* what the caller received: NoCtx, or the final state
    run,        \* number of the run on these inputs (1 or 2)
    first,      \* outcome of run 1, kept for comparison with run 2
    log,        \* log records written in this run, in order
    call,       \* a direct call of a single function: its name and arguments
    ret,        \* what that call returned
    index,      \* services/rag.py: _INDEX, the process-wide index
    bld,        \* the call of build_index that is running: position, locals
    srch        \* the call of search that is running: position, locals

vars == <<entry, args, env, pc, state, trace, log, err, result, run, first, call, ret,
          index, bld, srch>>

(***************************************************************************)
(* Bounds of the model                                                     *)
(***************************************************************************)
MaxRows == 3
MaxRuns == 2

(***************************************************************************)
(* Python values                                                           *)
(***************************************************************************)
Num(n)    == [t |-> "num", v |-> n]
NoneV     == [t |-> "none", v |-> 0]
NaNV      == [t |-> "nan", v |-> 0]
InfV      == [t |-> "inf", v |-> 0]
StrNum(n) == [t |-> "strnum", v |-> n]
StrNaN    == [t |-> "strnan", v |-> 0]
StrInf    == [t |-> "strinf", v |-> 0]
StrBad    == [t |-> "strbad", v |-> 0]
StrEmpty  == [t |-> "strempty", v |-> 0]
RaiseV    == [t |-> "raise", v |-> 0]

IsStrV(x) == x.t \in {"strnum", "strnan", "strinf", "strbad", "strempty"}

\* float(x): numbers pass, numeric strings are parsed ("nan" and "inf"
\* included), None and other strings raise.
PyFloat(x) ==
    CASE x.t = "num"    -> x
      [] x.t = "nan"    -> NaNV
      [] x.t = "inf"    -> InfV
      [] x.t = "strnum" -> Num(x.v)
      [] x.t = "strnan" -> NaNV
      [] x.t = "strinf" -> InfV
      [] OTHER          -> RaiseV

\* int(x): a finite number passes (the model's topn values are whole), an
\* integer literal is parsed; nan, inf, None and every other string raise.
PyInt(x) ==
    CASE x.t = "num"    -> x
      [] x.t = "strnum" -> Num(x.v)
      [] OTHER          -> RaiseV

\* Float comparisons: every comparison with a NaN is False.
FLt(a, b) ==
    \/ a.t = "num" /\ b.t = "num" /\ a.v < b.v
    \/ a.t = "num" /\ b.t = "inf"
FGt(a, b) == FLt(b, a)
FLe(a, b) ==
    \/ a.t = "num" /\ b.t = "num" /\ a.v <= b.v
    \/ a.t = "num" /\ b.t = "inf"
    \/ a.t = "inf" /\ b.t = "inf"
FEq(a, b) ==
    \/ a.t = "num" /\ b.t = "num" /\ a.v = b.v
    \/ a.t = "inf" /\ b.t = "inf"

\* math.isfinite
IsFinite(f) == f.t = "num"

(***************************************************************************)
(* Text                                                                    *)
(***************************************************************************)
Str(s) == [t |-> "str", s |-> s]
NoText == [t |-> "none", s |-> <<>>]

\* x or "" for a text value
OrEmpty(x) == IF x.t = "none" THEN <<>> ELSE x.s

IsSpace(c) == c = " "

RECURSIVE LStrip(_)
LStrip(s) ==
    IF s # <<>> /\ IsSpace(Head(s)) THEN LStrip(Tail(s)) ELSE s

RECURSIVE RStrip(_)
RStrip(s) ==
    IF s # <<>> /\ IsSpace(s[Len(s)]) THEN RStrip(SubSeq(s, 1, Len(s) - 1)) ELSE s

\* str.strip()
Strip(s) == RStrip(LStrip(s))

\* str.lower() on one character (Hangul has no case).
LowerChar(c) ==
    CASE c = "A" -> "a" [] c = "B" -> "b" [] c = "C" -> "c" [] c = "D" -> "d"
      [] c = "E" -> "e" [] c = "F" -> "f" [] c = "G" -> "g" [] c = "H" -> "h"
      [] c = "I" -> "i" [] c = "J" -> "j" [] c = "K" -> "k" [] c = "L" -> "l"
      [] c = "M" -> "m" [] c = "N" -> "n" [] c = "O" -> "o" [] c = "P" -> "p"
      [] c = "Q" -> "q" [] c = "R" -> "r" [] c = "S" -> "s" [] c = "T" -> "t"
      [] c = "U" -> "u" [] c = "V" -> "v" [] c = "W" -> "w" [] c = "X" -> "x"
      [] c = "Y" -> "y" [] c = "Z" -> "z"
      [] OTHER   -> c

\* str.lower()
Lower(s) == [i \in 1..Len(s) |-> LowerChar(s[i])]

(***************************************************************************)
(* app/services/geo.py                                                     *)
(***************************************************************************)
\* The coordinates the model draws from (degrees * 10^4).
NamsanLat  == 375512
NamsanLon  == 1269882
GangnamLat == 374979
GangnamLon == 1270276

\* haversine_km on finite arguments, in km * 10^5: the great-circle formula
\* with EARTH_RADIUS_KM = 6371.0088 evaluated on the model's coordinates
\* (origin Namsan or Gangnam; entry latitudes 37.5512, 37.5520, 37.5602,
\* 37.4979; entry longitudes 126.9882, 126.9884, 127.0276; and the two
\* entries with a zero axis, (0, 126.9882) and (37.5512, 0)).
HaversineTable ==
    <<375512, 1269882, 375512, 1269882>> :> 0 @@
    <<375512, 1269882, 375512, 1269884>> :> 1763 @@
    <<375512, 1269882, 375512, 1270276>> :> 347336 @@
    <<375512, 1269882, 375520, 1269882>> :> 8896 @@
    <<375512, 1269882, 375520, 1269884>> :> 9069 @@
    <<375512, 1269882, 375520, 1270276>> :> 347448 @@
    <<375512, 1269882, 375602, 1269882>> :> 100076 @@
    <<375512, 1269882, 375602, 1269884>> :> 100091 @@
    <<375512, 1269882, 375602, 1270276>> :> 361446 @@
    <<375512, 1269882, 374979, 1269882>> :> 592670 @@
    <<375512, 1269882, 374979, 1269884>> :> 592672 @@
    <<375512, 1269882, 374979, 1270276>> :> 687013 @@
    <<375512, 1269882, 0, 1269882>> :> 417550870 @@
    <<375512, 1269882, 375512, 0>> :> 1005031521 @@
    <<374979, 1270276, 375512, 1269882>> :> 687013 @@
    <<374979, 1270276, 375512, 1269884>> :> 686122 @@
    <<374979, 1270276, 375512, 1270276>> :> 592670 @@
    <<374979, 1270276, 375520, 1269882>> :> 694700 @@
    <<374979, 1270276, 375520, 1269884>> :> 693820 @@
    <<374979, 1270276, 375520, 1270276>> :> 601565 @@
    <<374979, 1270276, 375602, 1269882>> :> 774991 @@
    <<374979, 1270276, 375602, 1269884>> :> 774202 @@
    <<374979, 1270276, 375602, 1270276>> :> 692745 @@
    <<374979, 1270276, 374979, 1269882>> :> 347585 @@
    <<374979, 1270276, 374979, 1269884>> :> 345820 @@
    <<374979, 1270276, 374979, 1270276>> :> 0 @@
    <<374979, 1270276, 0, 1269882>> :> 416958396 @@
    <<374979, 1270276, 375512, 0>> :> 1005710264

\* haversine_km: math.sin/math.cos raise ValueError on an infinite argument,
\* a NaN argument makes the result NaN.
haversine_km(lat1, lon1, lat2, lon2) ==
    IF lat1.t = "inf" \/ lat2.t = "inf" THEN RaiseV
    ELSE IF (lon1.t = "inf") # (lon2.t = "inf")
            /\ lon1.t # "nan" /\ lon2.t # "nan" THEN RaiseV
    ELSE IF \E x \in {lat1, lon1, lat2, lon2} : x.t \notin {"num", "nan", "inf"} THEN RaiseV
    ELSE IF \E x \in {lat1, lon1, lat2, lon2} : x.t # "num" THEN NaNV
    ELSE Num(HaversineTable[<<lat1.v, lon1.v, lat2.v, lon2.v>>])

\* Mutant of _safe_float: the 0.0 test is missing.
SafeFloat_KeepsZero(x) ==
    IF x.t = "none" THEN NoneV
    ELSE LET f == PyFloat(x)
         IN  IF f.t = "raise" THEN NoneV ELSE f

\* _safe_float: None, a failed conversion and 0.0 all give None.
SafeFloat(x) ==
    IF x.t = "none" THEN NoneV
    ELSE LET f == PyFloat(x)
         IN  IF f.t = "raise" THEN NoneV
             ELSE IF FEq(f, Num(0)) THEN NoneV
             ELSE f

\* round(d, 3) of a distance in km * 10^5; round(nan, 3) is nan.
Round3(d) ==
    IF d.t = "num" THEN Num(((d.v + 50) \div 100) * 100) ELSE d

\* The comparison list.sort makes between two candidates: x["DIST_KM"] < y["DIST_KM"].
KeyLt(x, y) == FLt(x.DIST_KM, y.DIST_KM)

\* list.sort's count_run: the length of the run the list starts with, which
\* is strictly descending (desc) or non-descending under KeyLt.
RECURSIVE RunEnd(_, _, _)
RunEnd(s, i, desc) ==
    IF i > Len(s) THEN i - 1
    ELSE IF KeyLt(s[i], s[i - 1]) = desc THEN RunEnd(s, i + 1, desc)
    ELSE i - 1

Reverse(s) == [i \in 1..Len(s) |-> s[Len(s) + 1 - i]]

\* list.sort's binarysort: the place (number of elements before it) at which
\* pivot goes into the sorted prefix a[1..r].
RECURSIVE BinPos(_, _, _, _)
BinPos(a, pivot, l, r) ==
    IF l >= r THEN l
    ELSE LET p == l + ((r - l) \div 2)
         IN  IF KeyLt(pivot, a[p + 1]) THEN BinPos(a, pivot, l, p)
             ELSE BinPos(a, pivot, p + 1, r)

RECURSIVE BinarySort(_, _)
BinarySort(a, start) ==
    IF start > Len(a) THEN a
    ELSE LET l == BinPos(a, a[start], 0, start - 1)
             b == SubSeq(a, 1, l) \o <<a[start]>> \o SubSeq(a, l + 1, start - 1)
                    \o SubSeq(a, start + 1, Len(a))
         IN  BinarySort(b, start + 1)

\* candidates.sort(key=lambda x: x["DIST_KM"]) for a list shorter than 64:
\* the first run is found (and reversed if descending), the rest is
\* inserted by binary insertion.
PySort(s) ==
    IF Len(s) < 2 THEN s
    ELSE LET desc == KeyLt(s[2], s[1])
             n    == RunEnd(s, 3, desc)
             a    == IF desc THEN Reverse(SubSeq(s, 1, n)) \o SubSeq(s, n + 1, Len(s))
                     ELSE s
         IN  BinarySort(a, n + 1)

\* One row of nearest's loop: what becomes of the candidate list.
\* acc is [exc, val]; a raised exception ends the call.
NearestStep(acc, r, lat, lon, radius_km) ==
    IF acc.exc # "none" THEN acc
    ELSE LET la == SafeFloat(r.LA)
             lo == SafeFloat(r.LO)
         IN  IF la.t = "none" \/ lo.t = "none" THEN acc
             ELSE LET d == haversine_km(lat, lon, la, lo)
                  IN  IF d.t = "raise" THEN [exc |-> "ValueError", val |-> <<>>]
                      ELSE IF radius_km.t # "none" /\ IsStrV(radius_km)
                           THEN [exc |-> "TypeError", val |-> <<>>]
                      ELSE IF radius_km.t # "none" /\ FGt(d, radius_km) THEN acc
                      ELSE [exc |-> "none",
                            val |-> Append(acc.val,
                                [TITLE          |-> Strip(OrEmpty(r.TITLE)),
                                 ADDR           |-> Strip(OrEmpty(r.ADDR)),
                                 OPERATING_TIME |-> Strip(OrEmpty(r.OPERATING_TIME)),
                                 URL            |-> Strip(OrEmpty(r.URL)),
                                 LA             |-> la,
                                 LO             |-> lo,
                                 DIST_KM        |-> Round3(d)])]

RECURSIVE NearestLoop(_, _, _, _, _, _)
NearestLoop(acc, rows, i, lat, lon, radius_km) ==
    IF i > Len(rows) THEN acc
    ELSE NearestLoop(NearestStep(acc, rows[i], lat, lon, radius_km),
                     rows, i + 1, lat, lon, radius_km)

Max(a, b) == IF a >= b THEN a ELSE b

\* s[:n] for n >= 0: a slice stops at the end of the list.
SliceTo(s, n) == SubSeq(s, 1, IF n < Len(s) THEN n ELSE Len(s))

\* candidates[: max(1, int(topn))]
Truncate(s, topn) == SliceTo(s, Max(1, topn))

\* nearest(rows, lat, lon, topn, radius_km): [exc, val].
nearest(rows, lat, lon, topn, radius_km) ==
    LET flat == PyFloat(lat)
        flon == PyFloat(lon)
    IN  IF flat.t = "raise" \/ flon.t = "raise"
        THEN [exc |-> IF lat.t = "none" \/ (flat.t # "raise" /\ lon.t = "none")
                      THEN "TypeError" ELSE "ValueError",
              val |-> <<>>]
        ELSE LET c == NearestLoop([exc |-> "none", val |-> <<>>], rows, 1,
                                  flat, flon, radius_km)
                 n == PyInt(topn)
             IN  IF c.exc # "none" THEN c
                 ELSE IF n.t = "raise"
                      THEN [exc |-> IF topn.t = "none" THEN "TypeError" ELSE "ValueError",
                            val |-> <<>>]
                 ELSE [exc |-> "none", val |-> Truncate(PySort(c.val), n.v)]

\* Mutant of validate_coords: the range test is strict.
validate_coords_StrictRange(lat, lon) ==
    LET lat_f == PyFloat(lat)
        lon_f == PyFloat(lon)
    IN  IF lat_f.t = "raise" \/ lon_f.t = "raise" THEN FALSE
        ELSE IF ~(IsFinite(lat_f) /\ IsFinite(lon_f)) THEN FALSE
        ELSE /\ FLt(Num(-900000), lat_f) /\ FLt(lat_f, Num(900000))
             /\ FLt(Num(-1800000), lon_f) /\ FLt(lon_f, Num(1800000))

\* validate_coords: both convert, both are finite, both are in range.
validate_coords(lat, lon) ==
    LET lat_f == PyFloat(lat)
        lon_f == PyFloat(lon)
    IN  IF lat_f.t = "raise" \/ lon_f.t = "raise" THEN FALSE
        ELSE IF ~(IsFinite(lat_f) /\ IsFinite(lon_f)) THEN FALSE
        ELSE /\ FLe(Num(-900000), lat_f) /\ FLe(lat_f, Num(900000))
             /\ FLe(Num(-1800000), lon_f) /\ FLe(lon_f, Num(1800000))

\* PRESET_COORDS: preset label -> (lat, lon)
PRESET_COORDS ==
       <<"ko_si", "ko_cheong">> :> <<375663, 1269779>>
    @@ <<"ko_gwang", "ko_hwa", "ko_mun">> :> <<375759, 1269768>>
    @@ <<"ko_nam", "ko_san">> :> <<NamsanLat, NamsanLon>>
    @@ <<"ko_jam", "ko_sil">> :> <<375130, 1271028>>
    @@ <<"ko_gang", "ko_nam">> :> <<GangnamLat, GangnamLon>>
    @@ <<"ko_yeo", "ko_ui", "ko_do">> :> <<375219, 1269244>>

\* _PRESET_ALIASES: alias -> preset label
PRESET_ALIASES ==
       <<"s", "e", "o", "u", "l", " ", "c", "i", "t", "y", " ", "h", "a", "l", "l">> :> <<"ko_si", "ko_cheong">>
    @@ <<"c", "i", "t", "y", " ", "h", "a", "l", "l">> :> <<"ko_si", "ko_cheong">>
    @@ <<"g", "w", "a", "n", "g", "h", "w", "a", "m", "u", "n">> :> <<"ko_gwang", "ko_hwa", "ko_mun">>
    @@ <<"n", "a", "m", "s", "a", "n">> :> <<"ko_nam", "ko_san">>
    @@ <<"j", "a", "m", "s", "i", "l">> :> <<"ko_jam", "ko_sil">>
    @@ <<"g", "a", "n", "g", "n", "a", "m">> :> <<"ko_gang", "ko_nam">>
    @@ <<"y", "e", "o", "u", "i", "d", "o">> :> <<"ko_yeo", "ko_ui", "ko_do">>

\* _normalize_label
normalize_label(label) == Lower(Strip(label))

\* get_preset_coord: [found, lat, lon]; label is the text of a str.
NoCoord == [found |-> FALSE, lat |-> 0, lon |-> 0]
Coord(c) == [found |-> TRUE, lat |-> c[1], lon |-> c[2]]

\* Mutant of get_preset_coord: the alias table is not consulted.
get_preset_coord_NoAlias(label) ==
    IF label = <<>> THEN NoCoord
    ELSE IF label \in DOMAIN PRESET_COORDS THEN Coord(PRESET_COORDS[label])
    ELSE LET trimmed == Strip(label)
         IN  IF trimmed \in DOMAIN PRESET_COORDS
             THEN Coord(PRESET_COORDS[trimmed])
             ELSE NoCoord

get_preset_coord(label) ==
    IF label = <<>> THEN NoCoord
    ELSE IF label \in DOMAIN PRESET_COORDS THEN Coord(PRESET_COORDS[label])
    ELSE LET key == normalize_label(label)
         IN  IF key \in DOMAIN PRESET_ALIASES
                /\ PRESET_ALIASES[key] \in DOMAIN PRESET_COORDS
             THEN Coord(PRESET_COORDS[PRESET_ALIASES[key]])
             ELSE LET trimmed == Strip(label)
                  IN  IF trimmed \in DOMAIN PRESET_COORDS
                      THEN Coord(PRESET_COORDS[trimmed])
                      ELSE NoCoord

(***************************************************************************)
(* The catalog rows the model draws from: normalized rows as                *)
(* datastore.normalize_row leaves them (every key present, None for a       *)
(* missing value), with coordinates as numbers or as the upstream strings.  *)
(***************************************************************************)
Row(title, url, la, lo) ==
    [TITLE |-> title, ADDR |-> NoText, OPERATING_TIME |-> NoText, URL |-> url,
     LA |-> la, LO |-> lo]

RowA == Row(Str(<<"A">>), Str(<<"u", "a">>), Num(375512), Num(1269882))
RowB == Row(Str(<<" ", "B">>), NoText, StrNum(375520), StrNum(1269882))
RowC == Row(Str(<<"C">>), Str(<<"u", "c">>), Num(375602), Num(1269884))
RowD == Row(Str(<<"D">>), NoText, Num(375602), Num(1269882))
RowZ == Row(Str(<<"Z">>), NoText, Num(0), Num(1269882))
RowY == Row(Str(<<"Y">>), NoText, Num(375512), StrNum(0))
RowX == Row(Str(<<"X">>), NoText, NoneV, Num(1269882))
RowW == Row(Str(<<"W">>), NoText, Num(375512), StrBad)
RowN == Row(Str(<<"N">>), NoText, StrNaN, Num(1269882))
RowI == Row(Str(<<"I">>), NoText, StrInf, Num(1269882))

RowPool == {RowA, RowB, RowC, RowD, RowZ, RowY, RowX, RowW, RowN, RowI}

\* Catalogs: lists of up to MaxRows distinct rows.
RECURSIVE CatalogsOfLen(_)
CatalogsOfLen(n) ==
    IF n = 0 THEN {<<>>}
    ELSE {Append(c, r) : c \in CatalogsOfLen(n - 1), r \in RowPool}

Distinct(c) == \A i, j \in 1..Len(c) : i # j => c[i] # c[j]

Catalogs == UNION {{c \in CatalogsOfLen(n) : Distinct(c)} : n \in 0..MaxRows}

Origins == {<<Num(NamsanLat), Num(NamsanLon)>>, <<Num(GangnamLat), Num(GangnamLon)>>}

\* topn and radius_km as nearest's callers pass them.
RankTopns == {Num(0), Num(1), Num(2), Num(3)}
RankRadii == {NoneV, Num(0), Num(100090), Num(300000)}

(***************************************************************************)
(* Idle values of the variables a specification does not use               *)
(***************************************************************************)
NoErr  == [type |-> "none", at |-> "none"]
NoCtx  == [given |-> FALSE, ctx |-> <<>>]
NoCall == [fn |-> "none"]
NoRet  == [exc |-> "pending", val |-> <<>>]

\* A vector, with the backend that produced it.
Vec(v, by) == [v |-> v, by |-> by]

\* An embedder object: its class, and what it carries.
NoEmbedder == [name |-> "none", vocab |-> <<>>, reply |-> "none"]

\* _INDEX, with the number of the build that wrote each of its keys (0: the
\* module was just imported).
NoMatrix == [none |-> TRUE, rows |-> <<>>]
Matrix(vecs) == [none |-> FALSE, rows |-> vecs]

EmptyIndex ==
    [docs |-> <<>>, embeddings |-> NoMatrix, embedder |-> NoEmbedder,
     gen |-> [docs |-> 0, embeddings |-> 0, embedder |-> 0]]

\* A call of build_index that is not running, a call of search that is not.
\* (exc: what the last call raised; before: _INDEX as the call found it,
\* kept until the call makes its first assignment to _INDEX.)
BuildIdle ==
    [pc |-> "idle", n |-> 0, docs |-> <<>>, i |-> 0, out |-> <<>>, tried |-> <<>>,
     emb |-> NoEmbedder, vecs |-> <<>>, exc |-> "none", before |-> EmptyIndex]
SearchIdle ==
    [pc |-> "idle", query |-> NoText, k |-> 0, at_call |-> EmptyIndex, read |-> {},
     embedder |-> NoEmbedder, doc_mat |-> NoMatrix, q_vec |-> Vec(<<>>, "none"),
     scores |-> <<>>, idxs |-> <<>>, out |-> <<>>, exc |-> "none", calls |-> 0]

IndexIdle == index = EmptyIndex /\ bld = BuildIdle /\ srch = SearchIdle

IndexUnchanged == UNCHANGED <<index, bld, srch>>

PipelineIdle ==
    /\ entry = "none" /\ args = <<>> /\ env = <<>> /\ pc = "Idle" /\ state = <<>>
    /\ trace = <<>> /\ log = <<>> /\ err = NoErr /\ result = NoCtx /\ run = 0
    /\ first = <<>>

PipelineUnchanged ==
    UNCHANGED <<entry, args, env, pc, state, trace, log, err, result, run, first>>

(***************************************************************************)
(* SpecRank: nearest called directly (GeoRanker.rank)                      *)
(***************************************************************************)
InitRank ==
    /\ PipelineIdle
    /\ \E rows \in Catalogs, o \in Origins, topn \in RankTopns, radius_km \in RankRadii :
          call = [fn |-> "nearest", rows |-> rows, lat |-> o[1], lon |-> o[2],
                  topn |-> topn, radius_km |-> radius_km]
    /\ ret = NoRet
    /\ IndexIdle

CallNearest ==
    /\ call.fn = "nearest" /\ ret = NoRet
    /\ ret' = nearest(call.rows, call.lat, call.lon, call.topn, call.radius_km)
    /\ UNCHANGED call
    /\ PipelineUnchanged /\ IndexUnchanged

NextRank == CallNearest

SpecRank == InitRank /\ [][NextRank]_vars

(***************************************************************************)
(* The graph state: a dict, modelled as a function from its keys           *)
(***************************************************************************)
Has(st, k) == k \in DOMAIN st

\* state.get(k) for a number-valued key and for a text-valued key
GetNum(st, k)  == IF Has(st, k) THEN st[k] ELSE NoneV
GetText(st, k) == IF Has(st, k) THEN st[k] ELSE NoText

\* state.get(k, default)
GetOr(st, k, default) == IF Has(st, k) THEN st[k] ELSE default

\* out = dict(state); out.update(upd)
Update(st, upd) ==
    [k \in DOMAIN st \cup DOMAIN upd |-> IF k \in DOMAIN upd THEN upd[k] ELSE st[k]]

\* A dict built from keyword values, without the keys that are not given.
Absent     == [t |-> "absent", v |-> 0]
AbsentText == [t |-> "absent", s |-> <<>>]
MkDict(kv) == [k \in {x \in DOMAIN kv : kv[x].t # "absent"} |-> kv[k]]

(***************************************************************************)
(* app/agents/nodes.py: origin_resolver_node                               *)
(***************************************************************************)
DEVICE == <<"d", "e", "v", "i", "c", "e">>
MANUAL == <<"m", "a", "n", "u", "a", "l">>
\* "내 위치" and "사용자 지정"
MY_LOCATION  == <<"ko_nae", " ", "ko_wi", "ko_chi">>
USER_DEFINED == <<"ko_sa", "ko_yong", "ko_ja", " ", "ko_ji", "ko_jeong">>

DefaultRadiusKm == 300000
DefaultTopn     == 5

\* The resolver's outcome: the returned state, or the ValueError it raised
\* (msg says which of its three messages), and the log records it wrote.
ResolveFail(msg)   == [exc |-> "ValueError", msg |-> msg, val |-> <<>>, log |-> <<>>]
ResolveOk(out, lg) == [exc |-> "none", msg |-> "", val |-> out, log |-> lg]

\* f"{x:.2f}": a number with two decimals (degrees * 10^4 to the nearest 100).
Format2(x) ==
    IF x.t # "num" THEN x
    ELSE IF x.v >= 0 THEN Num(((x.v + 50) \div 100) * 100)
    ELSE Num(-((((-x.v) + 50) \div 100) * 100))

\* _mask_coords: formatting anything but a number raises, and "(invalid)"
\* is logged instead.
Invalid == [t |-> "invalid", v |-> 0]
mask_coords(lat, lon) ==
    IF lat.t \in {"num", "nan", "inf"} /\ lon.t \in {"num", "nan", "inf"}
    THEN [lat |-> Format2(lat), lon |-> Format2(lon)]
    ELSE [lat |-> Invalid, lon |-> Invalid]


\* Mutant of ResolveRadius: an absent radius_km resolves to None.
ResolveRadius_AbsentIsNone(st) ==
    LET radius_km == GetNum(st, "radius_km")
    IN  IF radius_km.t = "none" THEN NoneV
        ELSE LET f == PyFloat(radius_km)
             IN  IF f.t = "raise" THEN NoneV ELSE f

\* radius_km = out.get("radius_km", 3.0), then float() or None
ResolveRadius(st) ==
    LET radius_km == GetOr(st, "radius_km", Num(DefaultRadiusKm))
    IN  IF radius_km.t = "none" THEN NoneV
        ELSE LET f == PyFloat(radius_km)
             IN  IF f.t = "raise" THEN NoneV ELSE f

\* Mutant of ResolveTopn: a topn below 1 is replaced by the default too.
ResolveTopn_DefaultBelowOne(st) ==
    LET topn == GetOr(st, "topn", Num(DefaultTopn))
        n    == PyInt(topn)
    IN  IF n.t = "raise" \/ n.v < 1 THEN Num(DefaultTopn) ELSE n

\* topn = out.get("topn", 5), then int() or 5
ResolveTopn(st) ==
    LET topn == GetOr(st, "topn", Num(DefaultTopn))
        n    == PyInt(topn)
    IN  IF n.t = "raise" THEN Num(DefaultTopn) ELSE n

origin_resolver_node(st) ==
    LET mode == Lower(Strip(OrEmpty(GetText(st, "origin_mode"))))
    IN  IF mode \notin {DEVICE, MANUAL} THEN ResolveFail("mode")
        ELSE
        LET label  == OrEmpty(GetText(st, "origin_label"))
            coords == IF mode = MANUAL /\ label # <<>>
                      THEN get_preset_coord(label) ELSE NoCoord
            lat0   == GetNum(st, "origin_lat")
            lon0   == GetNum(st, "origin_lon")
            given  == lat0.t # "none" /\ lon0.t # "none" /\ validate_coords(lat0, lon0)
        IN  IF mode = DEVICE /\ ~given THEN ResolveFail("device")
            ELSE IF mode = MANUAL /\ ~coords.found /\ ~given THEN ResolveFail("manual")
            ELSE
            LET lat_raw == IF coords.found THEN Num(coords.lat) ELSE lat0
                lon_raw == IF coords.found THEN Num(coords.lon) ELSE lon0
                lat == PyFloat(lat_raw)
                lon == PyFloat(lon_raw)
                masked == mask_coords(lat_raw, lon_raw)
                origin_label ==
                    IF mode = DEVICE THEN (IF label # <<>> THEN label ELSE MY_LOCATION)
                    ELSE IF coords.found THEN label
                    ELSE (IF label # <<>> THEN label ELSE USER_DEFINED)
            IN  ResolveOk(Update(st,
                    [origin_mode  |-> Str(mode),
                     origin_label |-> Str(origin_label),
                     origin_lat   |-> lat,
                     origin_lon   |-> lon,
                     lat          |-> lat,
                     lon          |-> lon,
                     radius_km    |-> ResolveRadius(st),
                     topn         |-> ResolveTopn(st)]),
                    <<[node |-> "O", what |-> "coords",
                       lat |-> masked.lat, lon |-> masked.lon]>>)

(***************************************************************************)
(* app/agents/nodes.py: agent_c, agent_e, agent_d                          *)
(***************************************************************************)
\* What a node did: the state it returned, or the exception it raised, and
\* the log records it wrote (in order).
NodeOk(out, lg)   == [exc |-> "none", val |-> out, log |-> lg]
NodeFail(exc, lg) == [exc |-> exc, val |-> <<>>, log |-> lg]

\* The exception a failed float()/int() raises: TypeError on None,
\* ValueError on a string.
ConvError(x) == IF x.t = "none" THEN "TypeError" ELSE "ValueError"

\* A pair (lat, lon)
Tuple2(lat, lon) == [t |-> "tuple", lat |-> lat, lon |-> lon]

\* Mutant of agent_c: the candidate list of the previous call is still in
\* the list the next call ranks (a list kept across calls).
agent_c_KeepsCandidates(st) ==
    LET r == nearest(st.rows, st.lat, st.lon, st.topn, GetNum(st, "radius_km"))
    IN  IF r.exc # "none" THEN NodeFail(r.exc, <<>>)
        ELSE NodeOk(Update(st, [recommendations |->
                        Truncate(PySort(first.recommendations \o r.val), st.topn.v),
                     center |-> GetOr(st, "center", Tuple2(st.lat, st.lon))]),
                    <<>>)

agent_c(st) ==
    LET rows == IF Has(st, "rows") THEN st.rows ELSE <<>>
        lat  == PyFloat(GetNum(st, "lat"))
        lon  == PyFloat(GetNum(st, "lon"))
        topn == PyInt(GetOr(st, "topn", Num(DefaultTopn)))
        rk   == GetNum(st, "radius_km")
        radius_km == IF rk.t = "strempty" THEN NoneV ELSE rk
    IN  IF lat.t = "raise" THEN NodeFail(ConvError(GetNum(st, "lat")), <<>>)
        ELSE IF lon.t = "raise" THEN NodeFail(ConvError(GetNum(st, "lon")), <<>>)
        ELSE IF topn.t = "raise" THEN NodeFail(ConvError(GetNum(st, "topn")), <<>>)
        ELSE
        LET lg1 == [node |-> "C", what |-> "coords", lat |-> lat, lon |-> lon]
            r   == nearest(rows, lat, lon, topn, radius_km)
        IN  IF r.exc # "none" THEN NodeFail(r.exc, <<lg1>>)
            ELSE NodeOk(
                    Update(st, [recommendations |-> r.val,
                                center |-> GetOr(st, "center", Tuple2(lat, lon))]),
                    <<lg1, [node |-> "C", what |-> "count", lat |-> NoneV, lon |-> NoneV]>>)

LEAFLET == <<"l", "e", "a", "f", "l", "e", "t">>
KAKAO   == <<"k", "a", "k", "a", "o">>

\* map_html, by what it shows.
MapHtml(kind) == [kind |-> kind]

\* Mutant of agent_e: what the renderer raises leaves the node.
agent_e_RenderRaises(st, kakao_key, render_raises) ==
    LET recs == IF Has(st, "recommendations") THEN st.recommendations ELSE <<>>
    IN  IF recs = <<>> THEN NodeOk(Update(st, [map_html |-> MapHtml("no_recommendations")]), <<>>)
        ELSE IF render_raises THEN NodeFail("RuntimeError", <<>>)
        ELSE NodeOk(Update(st, [map_html |-> MapHtml("leaflet")]), <<>>)

\* agent_e; kakao_key: KAKAO_API_KEY is configured; render_raises: the
\* renderer called raises.
agent_e(st, kakao_key, render_raises) ==
    LET recs     == IF Has(st, "recommendations") THEN st.recommendations ELSE <<>>
        p        == OrEmpty(GetText(st, "map_provider"))
        provider == Lower(IF p = <<>> THEN LEAFLET ELSE p)
    IN  IF recs = <<>> THEN NodeOk(Update(st, [map_html |-> MapHtml("no_recommendations")]), <<>>)
        ELSE IF render_raises
             THEN NodeOk(Update(st, [map_html |-> MapHtml("render_failed")]), <<>>)
        ELSE IF provider = KAKAO /\ kakao_key
             THEN NodeOk(Update(st, [map_html |-> MapHtml("kakao")]), <<>>)
        ELSE NodeOk(Update(st, [map_html |-> MapHtml("leaflet")]), <<>>)

\* Text of an answer: a list of lines [k, d, f]; k is the kind of line, d a
\* distance (or None), f the texts the line holds.
Line(k, d, f) == [k |-> k, d |-> d, f |-> f]

NO_TITLE == <<"(", "ko_je", "ko_mok", " ", "ko_eop", "ko_eum", ")">>
DASH     == <<"-">>

\* s or default, for a string s
OrText(s, default) == IF s = <<>> THEN default ELSE s

\* _format_sources(recs, limit=5)
SourcesLimit == 5

\* Mutant of format_sources: every recommendation is listed.
format_sources_NoLimit(recs) ==
    [i \in 1..Len(recs) |->
        Line("source", NoneV, <<OrText(recs[i].TITLE, NO_TITLE), recs[i].URL>>)]

format_sources(recs) ==
    [i \in 1..Len(SliceTo(recs, SourcesLimit)) |->
        Line("source", NoneV, <<OrText(recs[i].TITLE, NO_TITLE), recs[i].URL>>)]

\* _llm_answer_azure: None (NoText) when the configuration is incomplete or
\* the request fails, else the content of the first choice.
\* aoai: "unconfigured", "down" (the request fails) or "up".
llm_answer_azure(aoai, content) ==
    IF aoai = "unconfigured" THEN NoText
    ELSE IF aoai = "down" THEN NoText
    ELSE content

\* Mutant of llm_requests: a failed request is sent once more.
llm_requests_Retries(aoai) ==
    IF aoai = "unconfigured" THEN 0 ELSE IF aoai = "down" THEN 2 ELSE 1

\* Number of requests _llm_answer_azure sends.
llm_requests(aoai) == IF aoai = "unconfigured" THEN 0 ELSE 1

\* The rule-based answer of agent_d.
TemplateAnswer(recs) ==
    <<Line("header", NoneV, <<>>)>>
    \o [i \in 1..Len(recs) |->
          Line("rec", recs[i].DIST_KM,
               <<OrText(recs[i].TITLE, NO_TITLE), OrText(recs[i].ADDR, DASH),
                 OrText(recs[i].OPERATING_TIME, DASH), recs[i].URL>>)]
    \o <<Line("sources_header", NoneV, <<>>)>>
    \o format_sources(recs)

\* Mutant of agent_d: the remote answer is asked for before the
\* recommendations are looked at.
agent_d_AsksFirst(st, aoai, content) ==
    LET recs == IF Has(st, "recommendations") THEN st.recommendations ELSE <<>>
        llm  == OrEmpty(llm_answer_azure(aoai, content))
        answer ==
            IF llm # <<>> THEN <<Line("llm", NoneV, <<llm>>)>>
            ELSE IF recs = <<>> THEN <<Line("no_results", NoneV, <<>>)>>
            ELSE TemplateAnswer(recs)
        tier == IF llm # <<>> THEN "remote" ELSE IF recs = <<>> THEN "none" ELSE "template"
    IN  [exc |-> "none",
         val |-> Update(st, [answer  |-> answer,
                             sources |-> [i \in 1..Len(recs) |->
                                            [TITLE |-> recs[i].TITLE, URL |-> recs[i].URL]]]),
         log |-> <<>>,
         tier |-> tier,
         requests |-> llm_requests(aoai)]

\* Mutant of agent_d: the sources are the ones the rule-based answer
\* lists, and there are none beside an answer of the remote service.
agent_d_SourcesOfTemplate(st, aoai, content) ==
    LET recs == IF Has(st, "recommendations") THEN st.recommendations ELSE <<>>
        llm  == OrEmpty(llm_answer_azure(aoai, content))
        answer ==
            IF recs = <<>> THEN <<Line("no_results", NoneV, <<>>)>>
            ELSE IF llm # <<>> THEN <<Line("llm", NoneV, <<llm>>)>>
            ELSE TemplateAnswer(recs)
        tier == IF recs = <<>> THEN "none" ELSE IF llm # <<>> THEN "remote" ELSE "template"
        cited == IF tier = "remote" THEN <<>> ELSE recs
    IN  [exc |-> "none",
         val |-> Update(st, [answer  |-> answer,
                             sources |-> [i \in 1..Len(cited) |->
                                            [TITLE |-> cited[i].TITLE, URL |-> cited[i].URL]]]),
         log |-> <<>>,
         tier |-> tier,
         requests |-> IF recs = <<>> THEN 0 ELSE llm_requests(aoai)]

\* Mutant of agent_d: the node returns its additions, not the state with them.
agent_d_OnlyAdditions(st, aoai, content) ==
    [exc |-> "none",
     val |-> [answer |-> <<Line("no_results", NoneV, <<>>)>>, sources |-> <<>>],
     log |-> <<>>, tier |-> "none", requests |-> 0]

\* agent_d; aoai and content: what the remote answer service does if asked.
\* tier and requests are not part of the state returned: they record which
\* tier wrote the answer and how many requests were sent.
agent_d(st, aoai, content) ==
    LET recs == IF Has(st, "recommendations") THEN st.recommendations ELSE <<>>
        llm  == OrEmpty(llm_answer_azure(aoai, content))
        answer ==
            IF recs = <<>> THEN <<Line("no_results", NoneV, <<>>)>>
            ELSE IF llm # <<>> THEN <<Line("llm", NoneV, <<llm>>)>>
            ELSE TemplateAnswer(recs)
        tier == IF recs = <<>> THEN "none" ELSE IF llm # <<>> THEN "remote" ELSE "template"
    IN  [exc |-> "none",
         val |-> Update(st, [answer  |-> answer,
                             sources |-> [i \in 1..Len(recs) |->
                                            [TITLE |-> recs[i].TITLE, URL |-> recs[i].URL]]]),
         log |-> <<>>,
         tier |-> tier,
         requests |-> IF recs = <<>> THEN 0 ELSE llm_requests(aoai)]

(***************************************************************************)
(* SpecResolve: origin_resolver_node called directly                       *)
(* (OriginResolver.resolve)                                                *)
(***************************************************************************)
GANGNAM_KO == <<"ko_gang", "ko_nam">>

ResolveModes ==
    {AbsentText, Str(<<>>), Str(DEVICE), Str(MANUAL),
     Str(<<" ", "M", "a", "n", "u", "a", "l">>), Str(<<"D", "E", "V", "I", "C", "E", " ">>),
     Str(<<"a", "u", "t", "o">>)}
ResolveLats ==
    {Absent, NoneV, Num(NamsanLat), StrNum(NamsanLat), Num(-900000), Num(900001),
     Num(10000000), NaNV, InfV, StrBad}
ResolveLons ==
    {Absent, Num(NamsanLon), Num(1800000), Num(-2000000), NaNV}
ResolveLabels ==
    {AbsentText, Str(<<>>), Str(GANGNAM_KO), Str(<<" ", "ko_gang", "ko_nam", " ">>),
     Str(<<"g", "a", "n", "g", "n", "a", "m">>), Str(<<"G", "a", "n", "g", "N", "a", "m", " ">>),
     Str(<<"ko_gang", "ko_nam", "ko_yeok">>), Str(<<" ">>)}
ResolveRadii == {Absent, NoneV, StrEmpty, StrBad, Num(-100000), Num(100090)}
ResolveTopns == {Absent, NoneV, StrBad, Num(0), StrNum(3)}

InitResolve ==
    /\ PipelineIdle
    /\ \E m \in ResolveModes, la \in ResolveLats, lo \in ResolveLons,
          lb \in ResolveLabels, rk \in ResolveRadii, tn \in ResolveTopns :
          call = [fn |-> "origin_resolver_node",
                  state |-> MkDict([origin_mode |-> m, origin_lat |-> la,
                                    origin_lon |-> lo, origin_label |-> lb,
                                    radius_km |-> rk, topn |-> tn])]
    /\ ret = NoRet
    /\ IndexIdle

\* The caller keeps the dict it passed (call.state); the resolver works on
\* out = dict(state), a copy, and every write of it goes to the copy.
CallResolve ==
    /\ call.fn = "origin_resolver_node" /\ ret = NoRet
    /\ ret' = origin_resolver_node(call.state)
    /\ UNCHANGED call
    /\ PipelineUnchanged /\ IndexUnchanged

NextResolve == CallResolve

SpecResolve == InitResolve /\ [][NextResolve]_vars

(***************************************************************************)
(* app/agents/graph.py: the gate, the two graphs, run_o_to_d, run_c_to_d   *)
(***************************************************************************)
\* Mutant of ensure_origin_valid: the test of topn < 1 is missing.
ensure_origin_valid_NoTopnTest(st) ==
    LET mode   == Lower(Strip(OrEmpty(GetText(st, "origin_mode"))))
        lat    == PyFloat(GetNum(st, "origin_lat"))
        lon    == PyFloat(GetNum(st, "origin_lon"))
        rk     == GetNum(st, "radius_km")
        rk_val == PyFloat(rk)
        topn   == PyInt(GetOr(st, "topn", Num(DefaultTopn)))
    IN  IF mode \notin {DEVICE, MANUAL} THEN "mode"
        ELSE IF lat.t = "raise" \/ lon.t = "raise" THEN "coords_not_numbers"
        ELSE IF ~(/\ FLe(Num(-900000), lat) /\ FLe(lat, Num(900000))
                  /\ FLe(Num(-1800000), lon) /\ FLe(lon, Num(1800000)))
             THEN "coords_range"
        ELSE IF rk.t \notin {"none", "strempty"} /\ rk_val.t = "raise"
             THEN "radius_not_number"
        ELSE IF rk.t \notin {"none", "strempty"} /\ FLt(rk_val, Num(0))
             THEN "radius_negative"
        ELSE IF topn.t = "raise" THEN "topn_not_int"
        ELSE "ok"

\* ensure_origin_valid: "ok", or which of its ValueErrors it raises.
ensure_origin_valid(st) ==
    LET mode   == Lower(Strip(OrEmpty(GetText(st, "origin_mode"))))
        lat    == PyFloat(GetNum(st, "origin_lat"))
        lon    == PyFloat(GetNum(st, "origin_lon"))
        rk     == GetNum(st, "radius_km")
        rk_val == PyFloat(rk)
        topn   == PyInt(GetOr(st, "topn", Num(DefaultTopn)))
    IN  IF mode \notin {DEVICE, MANUAL} THEN "mode"
        ELSE IF lat.t = "raise" \/ lon.t = "raise" THEN "coords_not_numbers"
        ELSE IF ~(/\ FLe(Num(-900000), lat) /\ FLe(lat, Num(900000))
                  /\ FLe(Num(-1800000), lon) /\ FLe(lon, Num(1800000)))
             THEN "coords_range"
        ELSE IF rk.t \notin {"none", "strempty"} /\ rk_val.t = "raise"
             THEN "radius_not_number"
        ELSE IF rk.t \notin {"none", "strempty"} /\ FLt(rk_val, Num(0))
             THEN "radius_negative"
        ELSE IF topn.t = "raise" THEN "topn_not_int"
        ELSE IF FLt(topn, Num(1)) THEN "topn_low"
        ELSE "ok"

AgentO == "AgentO_OriginResolver"
AgentC == "AgentC_Recommender"
AgentE == "AgentE_Map"
AgentD == "AgentD_Answer"
END    == "__end__"

\* Mutant of build_graph_full: the edges after the recommender are swapped.
build_graph_full_AnswerBeforeMap ==
    [entry_point |-> AgentO,
     edges |-> [n \in {AgentO, AgentC, AgentE, AgentD} |->
                  CASE n = AgentO -> AgentC
                    [] n = AgentC -> AgentD
                    [] n = AgentD -> AgentE
                    [] n = AgentE -> END]]

build_graph_full ==
    [entry_point |-> AgentO,
     edges |-> [n \in {AgentO, AgentC, AgentE, AgentD} |->
                  CASE n = AgentO -> AgentC
                    [] n = AgentC -> AgentE
                    [] n = AgentE -> AgentD
                    [] n = AgentD -> END]]

build_graph_ced ==
    [entry_point |-> AgentC,
     edges |-> [n \in {AgentC, AgentE, AgentD} |->
                  CASE n = AgentC -> AgentE
                    [] n = AgentE -> AgentD
                    [] n = AgentD -> END]]

\* The graph the entry point of this run compiled.
Graph == IF entry = "run_o_to_d" THEN build_graph_full ELSE build_graph_ced

\* The state dict run_o_to_d builds from its keyword arguments (defaults
\* filled in), or the exception a conversion raises.
run_o_to_d_state(a) ==
    LET lat  == PyFloat(a.origin_lat)
        lon  == PyFloat(a.origin_lon)
        tn0  == IF a.topn.t = "absent" THEN Num(DefaultTopn) ELSE a.topn
        topn == PyInt(tn0)
    IN  IF lat.t = "raise" THEN [exc |-> ConvError(a.origin_lat), val |-> <<>>]
        ELSE IF lon.t = "raise" THEN [exc |-> ConvError(a.origin_lon), val |-> <<>>]
        ELSE IF topn.t = "raise" THEN [exc |-> ConvError(tn0), val |-> <<>>]
        ELSE [exc |-> "none",
              val |-> Update(
                [rows         |-> a.rows,
                 origin_mode  |-> a.origin_mode,
                 origin_lat   |-> lat,
                 origin_lon   |-> lon,
                 origin_label |-> IF a.origin_label.t = "absent"
                                  THEN Str(MY_LOCATION) ELSE a.origin_label,
                 topn         |-> topn,
                 radius_km    |-> IF a.radius_km.t = "absent"
                                  THEN Num(DefaultRadiusKm) ELSE a.radius_km,
                 question     |-> Str(OrEmpty(a.question))],
                MkDict([map_provider |-> IF OrEmpty(a.map_provider) = <<>>
                                         THEN AbsentText ELSE a.map_provider]))]

\* The state dict run_c_to_d builds from its arguments.
run_c_to_d_state(a) ==
    LET lat  == PyFloat(a.lat)
        lon  == PyFloat(a.lon)
        tn0  == IF a.topn.t = "absent" THEN Num(DefaultTopn) ELSE a.topn
        topn == PyInt(tn0)
    IN  IF lat.t = "raise" THEN [exc |-> ConvError(a.lat), val |-> <<>>]
        ELSE IF lon.t = "raise" THEN [exc |-> ConvError(a.lon), val |-> <<>>]
        ELSE IF topn.t = "raise" THEN [exc |-> ConvError(tn0), val |-> <<>>]
        ELSE [exc |-> "none",
              val |-> Update(
                [rows      |-> a.rows,
                 lat       |-> lat,
                 lon       |-> lon,
                 topn      |-> topn,
                 radius_km |-> IF a.radius_km.t = "absent" THEN NoneV ELSE a.radius_km,
                 question  |-> Str(OrEmpty(a.question))],
                MkDict([map_provider |-> IF OrEmpty(a.map_provider) = <<>>
                                         THEN AbsentText ELSE a.map_provider,
                        center       |-> a.center]))]

(***************************************************************************)
(* Spec: the pipeline run through run_o_to_d or run_c_to_d                 *)
(***************************************************************************)
\* The arguments the entry points are called with have the types of their
\* signatures: the mode and the label are strings, a coordinate is a float
\* (any float: out of range, NaN and infinity included), topn is an int and
\* the radius a float or None; an argument with a default may be left out.
PipelineCatalogs ==
    {<<>>, <<RowA>>, <<RowC, RowD, RowA>>, <<RowD, RowN, RowA>>, <<RowB, RowI>>}

Question == Str(<<"q">>)

FullModes  == {Str(DEVICE), Str(<<" ", "M", "a", "n", "u", "a", "l">>),
               Str(<<"a", "u", "t", "o">>), Str(<<>>)}
FullLats   == {Num(NamsanLat), Num(10000000), NaNV}
FullLons   == {Num(NamsanLon), Num(-2000000)}
FullLabels == {AbsentText, Str(GANGNAM_KO), Str(<<"ko_gang", "ko_nam", "ko_yeok">>)}
FullTopns  == {Absent, Num(0), Num(1), Num(2)}
FullRadii  == {Absent, NoneV, Num(-100000), Num(100090), NaNV}
Providers  == {AbsentText, Str(<<"K", "a", "k", "a", "o">>)}

LegacyLats    == {Num(NamsanLat), NaNV, InfV}
LegacyTopns   == {Absent, Num(0), Num(2)}
LegacyRadii   == {Absent, Num(100090), Num(-100000)}
LegacyCenters == {Absent, Tuple2(Num(GangnamLat), Num(GangnamLon))}

\* What the remote answer service may be, and what it may answer.
AoaiStates   == {"unconfigured", "down", "up"}
LlmContents  == {Str(<<"a">>), Str(<<>>), NoText}

NoEnv   == [aoai |-> "none", requests |-> 0, tier |-> "none"]
NoFirst == [done |-> FALSE, recommendations |-> <<>>, answer |-> <<>>,
            tier |-> "none", aoai |-> "none"]

Init ==
    /\ \/ /\ entry = "run_o_to_d"
          /\ \E m \in FullModes, la \in FullLats, lo \in FullLons, lb \in FullLabels,
                tn \in FullTopns, rk \in FullRadii, mp \in Providers,
                rows \in PipelineCatalogs :
                args = [rows |-> rows, origin_mode |-> m, origin_lat |-> la,
                        origin_lon |-> lo, origin_label |-> lb, question |-> Question,
                        topn |-> tn, radius_km |-> rk, map_provider |-> mp]
       \/ /\ entry = "run_c_to_d"
          /\ \E la \in LegacyLats, tn \in LegacyTopns, rk \in LegacyRadii,
                mp \in Providers, c \in LegacyCenters, rows \in PipelineCatalogs :
                args = [rows |-> rows, lat |-> la, lon |-> Num(NamsanLon),
                        question |-> Question, topn |-> tn, radius_km |-> rk,
                        map_provider |-> mp, center |-> c]
    /\ env = NoEnv /\ pc = "Called" /\ state = <<>> /\ trace = <<>> /\ log = <<>>
    /\ err = NoErr /\ result = NoCtx /\ run = 1 /\ first = NoFirst
    /\ call = NoCall /\ ret = NoRet /\ IndexIdle

\* Mutant of Raised: the entry point returns the state it has on a failure.
Raised_ReturnsState(type, at) ==
    /\ pc' = "Failed"
    /\ err' = [type |-> type, at |-> at]
    /\ result' = [given |-> TRUE, ctx |-> state]
    /\ UNCHANGED state

\* An exception leaves the run: graph.invoke and the entry points catch
\* nothing, so the caller gets the exception and no state.
Raised(type, at) ==
    /\ pc' = "Failed"
    /\ err' = [type |-> type, at |-> at]
    /\ result' = NoCtx
    /\ UNCHANGED state

\* run_o_to_d up to graph.invoke: build the state, pass the gate.
RunOToD ==
    /\ pc = "Called" /\ entry = "run_o_to_d"
    /\ \E a \in AoaiStates : env' = [aoai |-> a, requests |-> 0, tier |-> "none"]
    /\ LET s == run_o_to_d_state(args)
           g == ensure_origin_valid(s.val)
       IN  IF s.exc # "none" THEN Raised(s.exc, "run_o_to_d")
           ELSE IF g # "ok"
                THEN /\ pc' = "Failed"
                     /\ err' = [type |-> "ValueError", at |-> "ensure_origin_valid"]
                     /\ result' = NoCtx
                     /\ state' = s.val
           ELSE /\ pc' = build_graph_full.entry_point
                /\ state' = s.val
                /\ UNCHANGED <<err, result>>
    /\ UNCHANGED <<entry, args, trace, log, run, first, call, ret>> /\ IndexUnchanged

\* run_c_to_d up to graph.invoke: build the state; there is no gate.
RunCToD ==
    /\ pc = "Called" /\ entry = "run_c_to_d"
    /\ \E a \in AoaiStates : env' = [aoai |-> a, requests |-> 0, tier |-> "none"]
    /\ LET s == run_c_to_d_state(args)
       IN  IF s.exc # "none" THEN Raised(s.exc, "run_c_to_d")
           ELSE /\ pc' = build_graph_ced.entry_point
                /\ state' = s.val
                /\ UNCHANGED <<err, result>>
    /\ UNCHANGED <<entry, args, trace, log, run, first, call, ret>> /\ IndexUnchanged

\* One node of the compiled graph ran on the state and returned r: the
\* state takes the node's update and the graph follows the node's edge;
\* after the last node, invoke returns the state.
NodeRan(node, r) ==
    /\ trace' = Append(trace, node)
    /\ log' = log \o r.log
    /\ IF r.exc # "none" THEN Raised(r.exc, node)
       ELSE LET nxt == Graph.edges[node]
                out == Update(state, r.val)
            IN  /\ state' = out
                /\ pc' = IF nxt = END THEN "Done" ELSE nxt
                /\ result' = IF nxt = END THEN [given |-> TRUE, ctx |-> out] ELSE result
                /\ UNCHANGED err
    /\ UNCHANGED <<entry, args, run, first, call, ret>> /\ IndexUnchanged

Resolve ==
    /\ pc = AgentO
    /\ NodeRan(AgentO, origin_resolver_node(state))
    /\ UNCHANGED env

Rank ==
    /\ pc = AgentC
    /\ NodeRan(AgentC, agent_c(state))
    /\ UNCHANGED env

Present ==
    /\ pc = AgentE
    /\ \E kakao_key \in BOOLEAN, render_raises \in BOOLEAN :
          NodeRan(AgentE, agent_e(state, kakao_key, render_raises))
    /\ UNCHANGED env

Synthesize ==
    /\ pc = AgentD
    /\ \E content \in LlmContents :
          LET r == agent_d(state, env.aoai, content)
          IN  /\ NodeRan(AgentD, r)
              /\ env' = [env EXCEPT !.requests = @ + r.requests, !.tier = r.tier]

\* The same entry point is called again with the same arguments.
Rerun ==
    /\ pc = "Done" /\ run < MaxRuns
    /\ run' = run + 1
    /\ first' = IF run = 1
                THEN [done |-> TRUE, recommendations |-> result.ctx.recommendations,
                      answer |-> result.ctx.answer, tier |-> env.tier, aoai |-> env.aoai]
                ELSE first
    /\ pc' = "Called" /\ state' = <<>> /\ trace' = <<>> /\ log' = <<>>
    /\ err' = NoErr /\ result' = NoCtx /\ env' = NoEnv
    /\ UNCHANGED <<entry, args, call, ret>> /\ IndexUnchanged

Next == RunOToD \/ RunCToD \/ Resolve \/ Rank \/ Present \/ Synthesize \/ Rerun

Spec == Init /\ [][Next]_vars

(***************************************************************************)
(* SpecSynthesize: agent_d called directly                                 *)
(* (AnswerSynthesizer.synthesize)                                          *)
(***************************************************************************)
MaxRecs == 6

SynthTitles == <<"A", "B", "C", "D", "E", "F", "G", "H">>

\* The i-th recommendation, as nearest leaves one (every text a string,
\* empty when the row had none): the third has no title, the even ones
\* have no URL.
SynthRec(i) ==
    [TITLE |-> IF i = 3 THEN <<>> ELSE <<SynthTitles[i]>>,
     ADDR |-> IF i = 1 THEN <<"a">> ELSE <<>>,
     OPERATING_TIME |-> <<>>,
     URL |-> IF i % 2 = 0 THEN <<>> ELSE <<"u", SynthTitles[i]>>,
     LA |-> Num(NamsanLat), LO |-> Num(NamsanLon), DIST_KM |-> Num(i * 10000)]

SynthLists ==
    {[i \in 1..n |-> SynthRec(i)] : n \in 0..MaxRecs}
    \cup {[i \in 1..n |-> SynthRec(n + 1 - i)] : n \in 2..MaxRecs}
    \cup {[i \in 1..n |-> SynthRec(i + 1)] : n \in 1..MaxRecs}

SynthStates ==
    {[question |-> Question, recommendations |-> recs] : recs \in SynthLists}
    \cup {[question |-> Question]}

InitSynthesize ==
    /\ PipelineIdle
    /\ \E st \in SynthStates, a \in AoaiStates :
          call = [fn |-> "agent_d", state |-> st, aoai |-> a]
    /\ ret = NoRet
    /\ IndexIdle

CallSynthesize ==
    /\ call.fn = "agent_d" /\ ret = NoRet
    /\ \E content \in LlmContents :
          ret' = agent_d(call.state, call.aoai, content)
    /\ UNCHANGED call
    /\ PipelineUnchanged /\ IndexUnchanged

NextSynthesize == CallSynthesize

SpecSynthesize == InitSynthesize /\ [][NextSynthesize]_vars

(***************************************************************************)
(* app/services/embeddings.py                                              *)
(***************************************************************************)
\* Code-point order of the characters the index texts are written with.
CharOrder == <<" ", "a", "b", "c", "q", "u", "z", "|">>
CharCode(c) == CHOOSE i \in 1..Len(CharOrder) : CharOrder[i] = c

\* s < t for two strings (Python compares code point by code point).
RECURSIVE StrLess(_, _)
StrLess(s, t) ==
    IF t = <<>> THEN FALSE
    ELSE IF s = <<>> THEN TRUE
    ELSE IF Head(s) # Head(t) THEN CharCode(Head(s)) < CharCode(Head(t))
    ELSE StrLess(Tail(s), Tail(t))

\* str.split(): the maximal runs of non-space characters, in order.
RECURSIVE SplitFrom(_, _)
SplitFrom(s, cur) ==
    IF s = <<>> THEN (IF cur = <<>> THEN <<>> ELSE <<cur>>)
    ELSE IF IsSpace(Head(s))
         THEN (IF cur = <<>> THEN <<>> ELSE <<cur>>) \o SplitFrom(Tail(s), <<>>)
    ELSE SplitFrom(Tail(s), Append(cur, Head(s)))

\* _simple_tokenize
simple_tokenize(text) == SplitFrom(Lower(text), <<>>)

\* sorted(set_of_strings)
RECURSIVE Sorted(_)
Sorted(S) ==
    IF S = {} THEN <<>>
    ELSE LET m == CHOOSE x \in S : \A y \in S \ {x} : StrLess(x, y)
         IN  <<m>> \o Sorted(S \ {m})

Range(s) == {s[i] : i \in 1..Len(s)}

\* KeywordEmbedder.__init__: the vocabulary, sorted.
KeywordVocab(corpus) ==
    Sorted(UNION {Range(simple_tokenize(corpus[i])) : i \in 1..Len(corpus)})

\* KeywordEmbedder._to_vec: counts of the tokens that are in the vocabulary.
to_vec(vocab, toks) ==
    [j \in 1..Len(vocab) |-> Cardinality({i \in 1..Len(toks) : toks[i] = vocab[j]})]

\* What the embedding service, or the fitted TF-IDF vectorizer, answers for
\* a text: outside this repository, so one of a few answers.
\*   unit: the same unit vector for every text
\*   zero: the zero vector for every text
Replies == {"unit", "zero"}
ReplyVec(reply, text) == IF reply = "unit" THEN <<1, 0>> ELSE <<0, 0>>

\* An embedder object: its class, and what it carries.
AOAIEmbedder(reply)     == [name |-> "aoai", vocab |-> <<>>, reply |-> reply]
TfidfEmbedder(reply)    == [name |-> "tfidf", vocab |-> <<>>, reply |-> reply]
KeywordEmbedder(corpus) == [name |-> "keyword", vocab |-> KeywordVocab(corpus), reply |-> "none"]

\* embedder.encode_texts([text])[0] for an embedder that answers
encode(emb, text) ==
    IF emb.name = "keyword"
    THEN Vec(to_vec(emb.vocab, simple_tokenize(text)), "keyword")
    ELSE Vec(ReplyVec(emb.reply, text), emb.name)

encode_texts(emb, texts) == [i \in 1..Len(texts) |-> encode(emb, texts[i])]

\* AOAIEmbedder.encode_texts sends the texts in batches of B
BatchSize == 64

RECURSIVE SumTo(_, _)
SumTo(f, n) == IF n = 0 THEN 0 ELSE f[n] + SumTo(f, n - 1)

Dot(a, b) ==
    LET n == IF Len(a) < Len(b) THEN Len(a) ELSE Len(b)
    IN  SumTo([i \in 1..n |-> a[i] * b[i]], n)

(***************************************************************************)
(* app/services/rag.py                                                     *)
(***************************************************************************)
IndexKeys ==
    <<"TITLE", "CONTENTS", "OPERATING_TIME", "ENTR_FEE", "SUBWAY", "BUS",
      "PARKING_INFO", "ADDR", "URL">>

\* " | ".join(parts)
RECURSIVE Join(_)
Join(parts) ==
    IF parts = <<>> THEN <<>>
    ELSE IF Len(parts) = 1 THEN parts[1]
    ELSE parts[1] \o <<" ", "|", " ">> \o Join(Tail(parts))

\* _concat_fields: the non-empty fields of the row, in the order of IndexKeys
RECURSIVE PartsFrom(_, _)
PartsFrom(row, i) ==
    IF i > Len(IndexKeys) THEN <<>>
    ELSE LET v == OrEmpty(row[IndexKeys[i]])
         IN  (IF v = <<>> THEN <<>> ELSE <<v>>) \o PartsFrom(row, i + 1)

concat_fields(row) == Join(PartsFrom(row, 1))

\* _make_snippet(text, length=160)
SnippetLength == 160
ELLIPSIS == "..."
make_snippet(text) ==
    LET s == Strip([i \in 1..Len(text) |-> IF text[i] = "\n" THEN " " ELSE text[i]])
    IN  IF Len(s) > SnippetLength
        THEN Append(SubSeq(s, 1, SnippetLength), ELLIPSIS) ELSE s

\* The documents build_index makes of the rows.
MakeDocs(rows) ==
    [i \in 1..Len(rows) |->
        [id    |-> i - 1,
         title |-> Strip(OrEmpty(rows[i].TITLE)),
         url   |-> Strip(OrEmpty(rows[i].URL)),
         text  |-> concat_fields(rows[i]),
         meta  |-> [addr |-> rows[i].ADDR, operating |-> rows[i].OPERATING_TIME,
                    fee |-> rows[i].ENTR_FEE]]]

Corpus(docs) == [i \in 1..Len(docs) |-> docs[i].text]

\* A cosine score num / (sqrt(d2) * sqrt(q2)), kept exact; 0 is Zero.
Zero == [num |-> 0, d2 |-> 1, q2 |-> 1]

\* Mutant of Score: the quotient is taken whatever the norms are.
Score_AnyNorm(d, q) == [num |-> Dot(d, q), d2 |-> Dot(d, d), q2 |-> Dot(q, q)]

Score(d, q) ==
    LET d2 == Dot(d, d)
        q2 == Dot(q, q)
    IN  IF q2 = 0 \/ d2 = 0 \/ Dot(d, q) = 0 THEN Zero
        ELSE [num |-> Dot(d, q), d2 |-> d2, q2 |-> q2]

\* a < b for two scores: compare the signed squares, cross-multiplied.
Signed(s) == IF s.num < 0 THEN -(s.num * s.num) ELSE s.num * s.num
ScoreLt(a, b) == Signed(a) * (b.d2 * b.q2) < Signed(b) * (a.d2 * a.q2)
ScoreEq(a, b) == Signed(a) * (b.d2 * b.q2) = Signed(b) * (a.d2 * a.q2)

OnlyIndex == PipelineUnchanged /\ UNCHANGED <<call, ret>>

\* The rows of the index: every key of datastore.normalize_row, None where
\* the source had nothing.
IRow(title, contents, url) ==
    [TITLE |-> title, CONTENTS |-> contents, OPERATING_TIME |-> NoText,
     ENTR_FEE |-> NoText, SUBWAY |-> NoText, BUS |-> NoText, PARKING_INFO |-> NoText,
     ADDR |-> NoText, URL |-> url]

IRa  == IRow(Str(<<"a">>), NoText, NoText)
IRab == IRow(Str(<<"A">>), Str(<<"b">>), NoText)
IRba == IRow(Str(<<"b">>), Str(<<"a">>), NoText)
IRc  == IRow(Str(<<"c">>), NoText, Str(<<"u">>))
IRe  == IRow(NoText, Str(<<>>), NoText)

\* One row more than a batch of the embedding service holds.
BigRows == [i \in 1..(BatchSize + 1) |-> IF i = 1 THEN IRab ELSE IRa]

IndexCatalogs == {<<>>, <<IRa>>, <<IRab, IRba, IRa>>, <<IRc, IRe>>, BigRows}
Queries == {Str(<<>>), Str(<<"a">>), Str(<<"c">>)}
Ks == {2, 5}

MaxBuilds == 2

InitIndex ==
    /\ PipelineIdle /\ call = NoCall /\ ret = NoRet
    /\ IndexIdle

\* ---- build_index ----
\* build_index(rows) is called (by BuildIndexAlone or BuildIndexRace, below):
\* the empty list goes to the three assignments that clear the index,
\* anything else to get_embedder.
\* A row whose TITLE or URL is neither a string nor None: .strip() raises.
IsText(x) == x.t \in {"str", "none"}
PrepareRaises(rows) ==
    \E i \in 1..Len(rows) : ~IsText(rows[i].TITLE) \/ ~IsText(rows[i].URL)

\* build_index raised: the call is over.
Failed(b, exc) == [BuildIdle EXCEPT !.n = b.n, !.exc = exc, !.before = b.before]

Called(rows) ==
    IF rows # <<>> /\ PrepareRaises(rows)
    THEN [BuildIdle EXCEPT !.n = bld.n + 1, !.exc = "AttributeError", !.before = index]
    ELSE [BuildIdle EXCEPT !.n = bld.n + 1,
                           !.pc = IF rows = <<>> THEN "clear_docs" ELSE "aoai",
                           !.docs = MakeDocs(rows),
                           !.before = index]

\* Mutant of IndexWhenCalled: the documents of the index are dropped when a
\* build starts.
IndexWhenCalled_DropsDocs(idx, rows) ==
    IF rows = <<>> THEN idx ELSE [idx EXCEPT !.docs = <<>>]

\* _INDEX while build_index makes its documents and has its vectors
\* computed: nothing is assigned before line 74 (line 45 for no rows).
IndexWhenCalled(idx, rows) == idx

\* build_index returns: its locals are gone.
Returned(b) == [BuildIdle EXCEPT !.n = b.n]

ClearDocs ==
    /\ bld.pc = "clear_docs"
    /\ index' = [index EXCEPT !.docs = <<>>, !.gen.docs = bld.n]
    /\ bld' = [bld EXCEPT !.pc = "clear_embeddings", !.before = EmptyIndex]
    /\ UNCHANGED srch /\ OnlyIndex

ClearEmbeddings ==
    /\ bld.pc = "clear_embeddings"
    /\ index' = [index EXCEPT !.embeddings = NoMatrix, !.gen.embeddings = bld.n]
    /\ bld' = [bld EXCEPT !.pc = "clear_embedder"]
    /\ UNCHANGED srch /\ OnlyIndex

ClearEmbedder ==
    /\ bld.pc = "clear_embedder"
    /\ index' = [index EXCEPT !.embedder = NoEmbedder, !.gen.embedder = bld.n]
    /\ bld' = Returned(bld)
    /\ UNCHANGED srch /\ OnlyIndex

Tried(tier, outcome) == [tier |-> tier, outcome |-> outcome]

\* get_embedder, 1): the three settings are there or not.
GetEmbedderAoai ==
    /\ bld.pc = "aoai"
    /\ \/ bld' = [bld EXCEPT !.pc = "tfidf",
                             !.tried = Append(@, Tried("aoai", "unconfigured"))]
       \/ \E reply \in Replies :
             bld' = [bld EXCEPT !.pc = "aoai_batch", !.emb = AOAIEmbedder(reply),
                                !.i = 0, !.out = <<>>]
    /\ UNCHANGED <<index, srch>> /\ OnlyIndex

\* Mutant of AoaiBatchFailed: the failure is noted, and the vectors of the
\* batches before the failed one are returned as the document vectors.
AoaiBatchFailed_KeepsPartial(b) ==
    [b EXCEPT !.pc = "write_docs", !.vecs = b.out,
              !.tried = Append(@, Tried("aoai", "failed"))]

\* A batch raised: encode_texts is left, its list with it, and get_embedder
\* goes on to 2). (i stays, to tell how many texts had been sent.)
AoaiBatchFailed(b) ==
    [b EXCEPT !.pc = "tfidf", !.out = <<>>, !.emb = NoEmbedder,
              !.tried = Append(@, Tried("aoai", "failed"))]

\* AOAIEmbedder.encode_texts, one batch: the request answers or raises.
AoaiBatch ==
    /\ bld.pc = "aoai_batch"
    /\ \/ bld' = AoaiBatchFailed(bld)
       \/ LET texts == Corpus(bld.docs)
              hi    == IF bld.i + BatchSize < Len(texts) THEN bld.i + BatchSize
                       ELSE Len(texts)
              out   == bld.out \o encode_texts(bld.emb, SubSeq(texts, bld.i + 1, hi))
          IN  bld' = IF hi < Len(texts)
                     THEN [bld EXCEPT !.i = hi, !.out = out]
                     ELSE [bld EXCEPT !.i = hi, !.out = out, !.vecs = out,
                                      !.pc = "write_docs",
                                      !.tried = Append(@, Tried("aoai", "ok"))]
    /\ UNCHANGED <<index, srch>> /\ OnlyIndex

\* Mutant of AfterTfidfFailed: there is no third embedder to fall back to.
AfterTfidfFailed_GivesUp(b) ==
    [b EXCEPT !.pc = "gave_up", !.tried = Append(@, Tried("tfidf", "failed"))]

AfterTfidfFailed(b) ==
    [b EXCEPT !.pc = "keyword", !.tried = Append(@, Tried("tfidf", "failed"))]

\* get_embedder, 2): scikit-learn is there and fits the corpus, or not.
GetEmbedderTfidf ==
    /\ bld.pc = "tfidf"
    /\ \/ bld' = AfterTfidfFailed(bld)
       \/ \E reply \in Replies :
             LET emb == TfidfEmbedder(reply)
             IN  bld' = [bld EXCEPT !.pc = "write_docs", !.emb = emb,
                                    !.vecs = encode_texts(emb, Corpus(bld.docs)),
                                    !.tried = Append(@, Tried("tfidf", "ok"))]
    /\ UNCHANGED <<index, srch>> /\ OnlyIndex

\* get_embedder, 3)
GetEmbedderKeyword ==
    /\ bld.pc = "keyword"
    /\ LET emb == KeywordEmbedder(Corpus(bld.docs))
       IN  bld' = [bld EXCEPT !.pc = "write_docs", !.emb = emb,
                              !.vecs = encode_texts(emb, Corpus(bld.docs)),
                              !.tried = Append(@, Tried("keyword", "ok"))]
    /\ UNCHANGED <<index, srch>> /\ OnlyIndex

WriteDocs ==
    /\ bld.pc = "write_docs"
    /\ index' = [index EXCEPT !.docs = bld.docs, !.gen.docs = bld.n]
    /\ bld' = [bld EXCEPT !.pc = "write_embeddings", !.before = EmptyIndex]
    /\ UNCHANGED srch /\ OnlyIndex

WriteEmbeddings ==
    /\ bld.pc = "write_embeddings"
    /\ index' = [index EXCEPT !.embeddings = Matrix(bld.vecs), !.gen.embeddings = bld.n]
    /\ bld' = [bld EXCEPT !.pc = "write_embedder"]
    /\ UNCHANGED srch /\ OnlyIndex

WriteEmbedder ==
    /\ bld.pc = "write_embedder"
    /\ index' = [index EXCEPT !.embedder = bld.emb, !.gen.embedder = bld.n]
    /\ bld' = Returned(bld)
    /\ UNCHANGED srch /\ OnlyIndex

\* ---- search ----
\* Mutant of SearchReturnsEarly: only the query is tested.
SearchReturnsEarly_QueryOnly(query, idx) == OrEmpty(query) = <<>>

\* The test search opens with: [] is returned at once.
SearchReturnsEarly(query, idx) ==
    \/ OrEmpty(query) = <<>>
    \/ idx.docs = <<>>
    \/ idx.embeddings.none
    \/ idx.embedder.name = "none"

\* A read of a key of _INDEX: where in search, and the build that wrote
\* what was read.
Read(at, key) == [at |-> at, key |-> key, gen |-> index.gen[key]]

\* The keys that test reads (or stops at).
GuardReads(query) ==
    IF OrEmpty(query) = <<>> THEN {}
    ELSE IF index.docs = <<>> THEN {Read("test", "docs")}
    ELSE IF index.embeddings.none
         THEN {Read("test", "docs"), Read("test", "embeddings")}
    ELSE {Read("test", "docs"), Read("test", "embeddings"), Read("test", "embedder")}

\* search(query, k) is called and makes its opening test.
Search ==
    /\ srch.pc \in {"idle", "done"}
    /\ \E query \in Queries, k \in Ks :
          srch' = [SearchIdle EXCEPT
                     !.query = query, !.k = k, !.at_call = index,
                     !.read = GuardReads(query),
                     !.pc = IF SearchReturnsEarly(query, index) THEN "done"
                            ELSE "read_embedder"]
    /\ UNCHANGED <<index, bld>> /\ OnlyIndex

\* embedder = _INDEX["embedder"]
ReadEmbedder ==
    /\ srch.pc = "read_embedder"
    /\ srch' = [srch EXCEPT !.embedder = index.embedder, !.pc = "read_doc_mat",
                            !.read = @ \cup {Read("body", "embedder")}]
    /\ UNCHANGED <<index, bld>> /\ OnlyIndex

\* doc_mat = _INDEX["embeddings"]
ReadDocMat ==
    /\ srch.pc = "read_doc_mat"
    /\ srch' = [srch EXCEPT !.doc_mat = index.embeddings, !.pc = "encode_query",
                            !.read = @ \cup {Read("body", "embeddings")}]
    /\ UNCHANGED <<index, bld>> /\ OnlyIndex

\* q_vec = embedder.encode_query(query): None has no such method, the
\* embedding service answers or raises, the fitted embedders answer.
EncodeQuery ==
    /\ srch.pc = "encode_query"
    /\ IF srch.embedder.name = "none"
       THEN srch' = [srch EXCEPT !.pc = "done", !.exc = "AttributeError"]
       ELSE \/ srch' = [srch EXCEPT !.pc = "score", !.calls = @ + 1,
                           !.q_vec = encode(srch.embedder, OrEmpty(srch.query))]
            \/ /\ srch.embedder.name = "aoai"
               /\ srch' = [srch EXCEPT !.pc = "done", !.calls = @ + 1,
                                       !.exc = "RequestException"]
    /\ UNCHANGED <<index, bld>> /\ OnlyIndex

\* The width of the matrix: of its rows, all of one length.
Width(m) == IF m.rows = <<>> THEN 0 ELSE Len(m.rows[1].v)

\* scores: zeros for a query of norm 0, else the cosine of each row, 0 for a
\* row of norm 0.
Scores(doc_mat, q_vec) ==
    [i \in 1..Len(doc_mat.rows) |-> Score(doc_mat.rows[i].v, q_vec.v)]

\* np.argsort(-scores): positions (from 0) by descending score. The sort is
\* numpy's default, which is not stable: of the orders it may leave equal
\* scores in, "first" keeps them as they were and "last" reverses them.
TieOrders == {"first", "last"}

RECURSIVE ArgSortFrom(_, _, _)
ArgSortFrom(scores, left, tie) ==
    IF left = {} THEN <<>>
    ELSE LET best == {i \in left : \A j \in left : ~ScoreLt(scores[i], scores[j])}
             pick == IF tie = "first" THEN CHOOSE i \in best : \A j \in best : i <= j
                     ELSE CHOOSE i \in best : \A j \in best : i >= j
         IN  <<pick - 1>> \o ArgSortFrom(scores, left \ {pick}, tie)

ArgSort(scores, tie) == ArgSortFrom(scores, 1..Len(scores), tie)

\* Lines 96-106: the norms, the scores, the first k positions of the
\* argsort. A matrix that is None or has no rows (an array of one
\* dimension), or a query vector of another width than the matrix, makes
\* numpy raise.
ScoreAndSort ==
    /\ srch.pc = "score"
    /\ IF srch.doc_mat.none \/ srch.doc_mat.rows = <<>>
       THEN srch' = [srch EXCEPT !.pc = "done", !.exc = "AxisError"]
       ELSE IF Dot(srch.q_vec.v, srch.q_vec.v) # 0
               /\ Len(srch.q_vec.v) # Width(srch.doc_mat)
       THEN srch' = [srch EXCEPT !.pc = "done", !.exc = "ValueError"]
       ELSE \E tie \in TieOrders :
               LET scores == Scores(srch.doc_mat, srch.q_vec)
               IN  srch' = [srch EXCEPT !.pc = "emit", !.scores = scores,
                               !.idxs = SliceTo(ArgSort(scores, tie), srch.k)]
    /\ UNCHANGED <<index, bld>> /\ OnlyIndex

\* One turn of the loop over idxs: d = _INDEX["docs"][int(idx)], and the
\* entry appended; after the last turn, return out.
Emit ==
    /\ srch.pc = "emit"
    /\ LET n == Len(srch.out) + 1
       IN  IF n > Len(srch.idxs) THEN srch' = [srch EXCEPT !.pc = "done"]
           ELSE LET idx == srch.idxs[n]
                IN  IF idx + 1 > Len(index.docs)
                    THEN srch' = [srch EXCEPT !.pc = "done", !.exc = "IndexError",
                                     !.read = @ \cup {Read("body", "docs")}]
                    ELSE LET d == index.docs[idx + 1]
                         IN  srch' = [srch EXCEPT
                                 !.read = @ \cup {Read("body", "docs")},
                                 !.out = Append(@,
                                     [TITLE |-> d.title, URL |-> d.url,
                                      SNIPPET |-> make_snippet(d.text),
                                      SCORE |-> srch.scores[idx + 1],
                                      idx |-> idx])]
    /\ UNCHANGED <<index, bld>> /\ OnlyIndex

\* ---- the callers ----
\* SpecIndex: one caller; a call of build_index or search starts when no
\* other call is running.
\* The caller has taken what its last search returned before it builds.
BuildIndexAlone ==
    /\ srch.pc \in {"idle", "done"}
    /\ bld.pc = "idle" /\ bld.n < MaxBuilds
    /\ \E rows \in IndexCatalogs :
          /\ bld' = Called(rows)
          /\ index' = IndexWhenCalled(index, rows)
    /\ srch' = SearchIdle
    /\ OnlyIndex

SearchAlone == bld.pc = "idle" /\ Search

SearchSteps == ReadEmbedder \/ ReadDocMat \/ EncodeQuery \/ ScoreAndSort \/ Emit

BuildSteps ==
    \/ ClearDocs \/ ClearEmbeddings \/ ClearEmbedder
    \/ GetEmbedderAoai \/ AoaiBatch \/ GetEmbedderTfidf \/ GetEmbedderKeyword
    \/ WriteDocs \/ WriteEmbeddings \/ WriteEmbedder

NextIndex == BuildIndexAlone \/ SearchAlone \/ BuildSteps \/ SearchSteps

SpecIndex == InitIndex /\ [][NextIndex]_vars

\* SpecIndexLoose: one caller, as in SpecIndex, and the embedding service
\* may also answer what it should not: a body without "data" (no vector for
\* the batch), or vectors of different lengths. A row may hold a number
\* where a text belongs.
IRbad == IRow(Num(7), NoText, NoText)

LooseCatalogs == {<<>>, <<IRa>>, <<IRab, IRba, IRa>>, <<IRa, IRbad>>}

BuildIndexLoose ==
    /\ srch.pc \in {"idle", "done"}
    /\ bld.pc = "idle" /\ bld.n < MaxBuilds
    /\ \E rows \in LooseCatalogs :
          /\ bld' = Called(rows)
          /\ index' = IndexWhenCalled(index, rows)
    /\ srch' = SearchIdle
    /\ OnlyIndex

\* _embed_batch, the answer has no "data": data.get("data", []) gives no
\* vector for the batch, and encode_texts goes on.
AoaiBatchShort ==
    /\ bld.pc = "aoai_batch"
    /\ LET n  == Len(bld.docs)
           hi == IF bld.i + BatchSize < n THEN bld.i + BatchSize ELSE n
       IN  bld' = IF hi < n
                  THEN [bld EXCEPT !.i = hi]
                  ELSE [bld EXCEPT !.i = hi, !.vecs = bld.out, !.pc = "write_docs",
                                   !.tried = Append(@, Tried("aoai", "ok"))]
    /\ UNCHANGED <<index, srch>> /\ OnlyIndex

\* The last batch is answered with vectors of different lengths:
\* get_embedder returns them and np.array(doc_vecs, dtype=float) raises.
AoaiBatchRagged ==
    /\ bld.pc = "aoai_batch"
    /\ Len(bld.docs) >= 2 /\ bld.i + BatchSize >= Len(bld.docs)
    /\ bld' = Failed(bld, "ValueError")
    /\ UNCHANGED <<index, srch>> /\ OnlyIndex

NextIndexLoose ==
    \/ BuildIndexLoose \/ SearchAlone \/ BuildSteps \/ SearchSteps
    \/ AoaiBatchShort \/ AoaiBatchRagged

SpecIndexLoose == InitIndex /\ [][NextIndexLoose]_vars

\* SpecIndexRace: two callers on the process-wide index (two sessions of
\* the UI are two threads of one process). One builds, and builds again;
\* the other makes one search; their statements interleave.
RaceCatalogs == {<<>>, <<IRa>>, <<IRab, IRba, IRa>>}

BuildIndexRace ==
    /\ bld.pc = "idle" /\ bld.n < MaxBuilds
    /\ \E rows \in RaceCatalogs :
          /\ bld' = Called(rows)
          /\ index' = IndexWhenCalled(index, rows)
    /\ UNCHANGED srch /\ OnlyIndex

SearchRace == srch.pc = "idle" /\ Search

NextIndexRace == BuildIndexRace \/ SearchRace \/ BuildSteps \/ SearchSteps

SpecIndexRace == InitIndex /\ [][NextIndexRace]_vars

(***************************************************************************)
(* app/services/api_client.py                                              *)
(***************************************************************************)
\* An element of a parsed XML document: its tag, its text (None when it has
\* none) and its children.
Elem(tag, text, kids) == [tag |-> tag, text |-> text, kids |-> kids]

\* bool(element): an element without children is false.
Truthy(e) == e.kids # <<>>

\* What find returns: <<>> for None, else <<element>>.
\* a or b
OrElem(a, b) == IF a # <<>> /\ Truthy(a[1]) THEN a ELSE b

\* element.find(tag): the first child with that tag.
Find(e, tag) ==
    LET at == {i \in 1..Len(e.kids) : e.kids[i].tag = tag}
    IN  IF at = {} THEN <<>> ELSE <<e.kids[CHOOSE i \in at : \A j \in at : i <= j]>>

\* The elements below e, in document order.
RECURSIVE Below(_)
RECURSIVE BelowAll(_)
BelowAll(kids) ==
    IF kids = <<>> THEN <<>>
    ELSE <<Head(kids)>> \o Below(Head(kids)) \o BelowAll(Tail(kids))
Below(e) == BelowAll(e.kids)

\* element.find(".//tag"): the first element below e with that tag.
FindBelow(e, tag) ==
    LET all == Below(e)
        at  == {i \in 1..Len(all) : all[i].tag = tag}
    IN  IF at = {} THEN <<>> ELSE <<all[CHOOSE i \in at : \A j \in at : i <= j]>>

\* element.iter(tag): e and the elements below it that have that tag.
Iter(e, tag) == SelectSeq(<<e>> \o Below(e), LAMBDA x : x.tag = tag)

\* The token a message of success holds.
INFO_000 == "INFO-000"
Contains(s, tok) == \E i \in 1..Len(s) : s[i] = tok

\* {child.tag: (child.text or "").strip() for child in item}
RowDict(item) ==
    [tag \in {item.kids[i].tag : i \in 1..Len(item.kids)} |->
        LET at   == {i \in 1..Len(item.kids) : item.kids[i].tag = tag}
            last == CHOOSE i \in at : \A j \in at : j <= i
        IN  Strip(OrEmpty(item.kids[last].text))]

\* What the body of a response is: no XML, or a document.
NotXml   == [xml |-> FALSE, root |-> Elem("", NoText, <<>>)]
Xml(root) == [xml |-> TRUE, root |-> root]

\* An error of fetch_page: which one, and the message it carries.
NoError == [kind |-> "none", msg |-> <<>>]
Error(kind, msg) == [kind |-> kind, msg |-> msg]

HasText(found) == found # <<>> /\ OrEmpty(found[1].text) # <<>>

\* result_node.find("MESSAGE") or result_node.find("message") or
\* result_node.find("MSG")
ResultMessage(result_node) ==
    OrElem(OrElem(Find(result_node, "MESSAGE"), Find(result_node, "message")),
           Find(result_node, "MSG"))

\* _parse_xml_to_rows: (rows, error_message)
parse_xml_to_rows(body) ==
    IF ~body.xml THEN [rows |-> <<>>, err |-> Error("parse", <<>>)]
    ELSE
    LET root        == body.root
        result_node == OrElem(FindBelow(root, "RESULT"), FindBelow(root, "result"))
        msg_node    == IF result_node = <<>> THEN <<>> ELSE ResultMessage(result_node[1])
        items       == Iter(root, "row")
        rows        == [i \in 1..Len(items) |-> RowDict(items[i])]
        last_node   == OrElem(FindBelow(root, "MESSAGE"), FindBelow(root, "message"))
    IN  IF HasText(msg_node) /\ ~Contains(Strip(msg_node[1].text.s), INFO_000)
        THEN [rows |-> <<>>, err |-> Error("message", Strip(msg_node[1].text.s))]
        ELSE IF rows = <<>> /\ HasText(last_node)
        THEN [rows |-> <<>>, err |-> Error("message", Strip(last_node[1].text.s))]
        ELSE [rows |-> rows, err |-> NoError]

\* What requests.get and raise_for_status do.
Transports == {"timeout", "connection_error", "http_error", "answered"}

\* What fetch_page returns (data: None is <<>> with none TRUE).
Fetched(ok, data, error, url) ==
    [raised |-> FALSE, ok |-> ok, data |-> data, error |-> error, url |-> url]
NoData == [none |-> TRUE, rows |-> <<>>]
Data(rows) == [none |-> FALSE, rows |-> rows]

\* fetch_page; key: SEOUL_OPENAPI_KEY is set.
fetch_page(key, transport, body) ==
    IF ~key THEN Fetched(FALSE, NoData, Error("no_key", <<>>), FALSE)
    ELSE IF transport = "timeout" THEN Fetched(FALSE, NoData, Error("timeout", <<>>), TRUE)
    ELSE IF transport # "answered" THEN Fetched(FALSE, NoData, Error("request", <<>>), TRUE)
    ELSE LET p == parse_xml_to_rows(body)
         IN  IF p.err # NoError THEN Fetched(FALSE, NoData, p.err, TRUE)
             ELSE Fetched(TRUE, Data(p.rows), NoError, TRUE)

(***************************************************************************)
(* SpecFetch: fetch_page called, the service answering one way or another  *)
(***************************************************************************)
MsgTexts == {NoText, Str(<<INFO_000, " ", "o", "k">>), Str(<<" ", "E", "R", "R">>)}
MsgTags  == {"MESSAGE", "message", "MSG"}
ResultTags == {"RESULT", "result"}
RowCounts  == {0, 1, 2}

RowElem(i) ==
    Elem("row", NoText,
         <<Elem("TITLE", Str(<<" ", "a">>), <<>>),
           Elem("NUM", IF i = 1 THEN NoText ELSE Str(<<"b">>), <<>>)>>)
RowElems(n) == [i \in 1..n |-> RowElem(i)]

\* The answer of the service: a RESULT as the whole document, a RESULT
\* inside the list, or the message directly inside the list.
Documents ==
    {Xml(Elem(rt, NoText, <<Elem("CODE", Str(<<"c">>), <<>>), Elem(mt, tx, <<>>)>>)) :
        rt \in ResultTags, mt \in MsgTags, tx \in MsgTexts}
    \cup
    {Xml(Elem("viewNightSpot", NoText,
              <<Elem(rt, NoText, <<Elem("CODE", Str(<<"c">>), <<>>), Elem(mt, tx, <<>>)>>)>>
              \o RowElems(n))) :
        rt \in ResultTags, mt \in MsgTags, tx \in MsgTexts, n \in RowCounts}
    \cup
    {Xml(Elem("viewNightSpot", NoText, <<Elem(mt, tx, <<>>)>> \o RowElems(n))) :
        mt \in MsgTags, tx \in MsgTexts, n \in RowCounts}
    \cup
    {Xml(Elem("viewNightSpot", NoText, RowElems(n))) : n \in RowCounts}

Bodies == {NotXml} \cup Documents

InitFetch ==
    /\ PipelineIdle /\ IndexIdle
    /\ \E key \in BOOLEAN, transport \in Transports, body \in Bodies :
          call = [fn |-> "fetch_page", key |-> key, transport |-> transport, body |-> body]
    /\ ret = NoRet

CallFetchPage ==
    /\ call.fn = "fetch_page" /\ ret = NoRet
    /\ ret' = [exc |-> "none", val |-> fetch_page(call.key, call.transport, call.body)]
    /\ UNCHANGED call
    /\ PipelineUnchanged /\ IndexUnchanged

NextFetch == CallFetchPage

SpecFetch == InitFetch /\ [][NextFetch]_vars

(***************************************************************************)
(* Properties of the pipeline (Spec)                                       *)
(***************************************************************************)
Nodes == {AgentO, AgentC, AgentE, AgentD}

IsPrefix(s, t) == Len(s) <= Len(t) /\ SubSeq(t, 1, Len(s)) = s

FullOrder   == <<AgentO, AgentC, AgentE, AgentD>>
LegacyOrder == <<AgentC, AgentE, AgentD>>

\* C1: in a run the nodes executed so far are an initial part of
\* Resolve, Rank, Present, Synthesize (of Rank, Present, Synthesize on the
\* legacy path, which never executes Resolve); the node about to execute is
\* the next one of that order; and a run is done exactly after all of them.
C1_StagesInFixedOrder ==
    LET order == IF entry = "run_o_to_d" THEN FullOrder ELSE LegacyOrder
    IN  /\ IsPrefix(trace, order)
        /\ pc \in Nodes => IsPrefix(Append(trace, pc), order)
        /\ pc = "Done" => trace = order
        /\ entry = "run_c_to_d" => \A i \in 1..Len(trace) : trace[i] # AgentO

C1_Witness ==
    /\ entry = "run_o_to_d" /\ pc = "Done" /\ trace = FullOrder /\ run = 1

\* What run_o_to_d was asked, read from its arguments.
ArgMode   == Lower(Strip(OrEmpty(args.origin_mode)))
ArgTopn   == IF args.topn.t = "absent" THEN Num(DefaultTopn) ELSE args.topn
ArgRadius == IF args.radius_km.t = "absent" THEN Num(DefaultRadiusKm) ELSE args.radius_km

ArgsInvalid ==
    \/ ArgMode \notin {DEVICE, MANUAL}
    \/ ~validate_coords(args.origin_lat, args.origin_lon)
    \/ ArgTopn.t = "num" /\ ArgTopn.v < 1
    \/ ArgRadius.t = "num" /\ ArgRadius.v < 0

\* C2: a run of the full pipeline whose mode is invalid, whose coordinate
\* is invalid, whose topn is below 1 or whose radius is negative is rejected
\* by ensure_origin_valid with a ValueError, and no node executes in it.
C2_GateRejectsInvalidRequest ==
    (entry = "run_o_to_d" /\ ArgsInvalid) =>
        /\ pc \in {"Called", "Failed"}
        /\ trace = <<>>
        /\ pc = "Failed" => err = [type |-> "ValueError", at |-> "ensure_origin_valid"]

C2_Witness ==
    /\ entry = "run_o_to_d" /\ pc = "Failed" /\ err.at = "ensure_origin_valid"
    /\ ArgMode = MANUAL /\ validate_coords(args.origin_lat, args.origin_lon)
    /\ args.topn = Num(0) /\ args.radius_km = NoneV

\* The exception a node raises on the state it was given.
NodeExc(node, st) ==
    CASE node = AgentO -> origin_resolver_node(st).exc
      [] node = AgentC -> agent_c(st).exc
      [] OTHER         -> "none"

\* C3: after a node of a run failed, that node is the last one that
\* executed, the caller has the exception the node raised, and the caller
\* has no state, whether the one the run started from or a later one.
C3_StageFailureAbortsRun ==
    (pc = "Failed" /\ err.at \in Nodes) =>
        /\ trace # <<>> /\ trace[Len(trace)] = err.at
        /\ err.type = NodeExc(err.at, state)
        /\ result = NoCtx

C3_Witness ==
    /\ pc = "Failed" /\ err = [type |-> "ValueError", at |-> AgentC]
    /\ entry = "run_o_to_d" /\ trace = <<AgentO, AgentC>> /\ result = NoCtx

\* The keys run_o_to_d / run_c_to_d put in the state they start the graph on.
InputKeys ==
    IF entry = "run_o_to_d" THEN DOMAIN run_o_to_d_state(args).val
    ELSE DOMAIN run_c_to_d_state(args).val

OriginKeys == {"origin_mode", "origin_label", "origin_lat", "origin_lon", "lat", "lon"}
OutputKeys == {"recommendations", "map_html", "answer", "sources"}

\* C4: the state a node returns has every key of the state it was given,
\* whatever the node's environment does; the state a finished run returns
\* has the keys the run started with, recommendations, map_html, answer and
\* sources, and on the full path the origin keys.
C4_ContextOnlyGrows ==
    /\ pc = AgentO =>
          LET r == origin_resolver_node(state)
          IN  r.exc = "none" => DOMAIN state \subseteq DOMAIN r.val
    /\ pc = AgentC =>
          LET r == agent_c(state)
          IN  r.exc = "none" => DOMAIN state \subseteq DOMAIN r.val
    /\ pc = AgentE =>
          \A kakao_key \in BOOLEAN, render_raises \in BOOLEAN :
              DOMAIN state \subseteq DOMAIN agent_e(state, kakao_key, render_raises).val
    /\ pc = AgentD =>
          \A a \in AoaiStates, content \in LlmContents :
              DOMAIN state \subseteq DOMAIN agent_d(state, a, content).val
    /\ pc = "Done" =>
          /\ result.given
          /\ InputKeys \cup OutputKeys \subseteq DOMAIN result.ctx
          /\ entry = "run_o_to_d" => OriginKeys \subseteq DOMAIN result.ctx

C4_Witness ==
    /\ pc = "Done" /\ entry = "run_o_to_d" /\ "map_provider" \in InputKeys
    /\ "map_provider" \in DOMAIN result.ctx /\ result.ctx.recommendations # <<>>

RankReturned == call.fn = "nearest" /\ ret.exc = "none"

\* Position of the catalog row a returned entry was made from (the model's
\* catalogs hold rows with distinct titles).
PosInCatalog(e) ==
    CHOOSE p \in 1..Len(call.rows) : Strip(OrEmpty(call.rows[p].TITLE)) = e.TITLE

\* An axis that is missing (None), unparsable, or exactly 0.
AxisAbsent(x) ==
    \/ x.t \in {"none", "strbad", "strempty"}
    \/ x.t \in {"num", "strnum"} /\ x.v = 0

\* C6: nearest returns at most max(1, topN) entries, every returned entry's
\* DIST_KM is <= radius when a radius is given, and the DIST_KM values are
\* non-decreasing along the list.
C6_RankBoundedWithinRadiusAscending ==
    RankReturned =>
        /\ Len(ret.val) <= Max(1, call.topn.v)
        /\ call.radius_km.t # "none" =>
              \A j \in 1..Len(ret.val) : FLe(ret.val[j].DIST_KM, call.radius_km)
        /\ \A j \in 1..(Len(ret.val) - 1) :
              FLe(ret.val[j].DIST_KM, ret.val[j + 1].DIST_KM)

\* C7: no entry whose latitude or longitude is missing, unparsable or
\* exactly 0 appears in the result of nearest, whatever the origin, radius
\* and topN.
C7_NoAbsentCoordinateRanked ==
    RankReturned =>
        /\ \A i \in 1..Len(call.rows) :
              (AxisAbsent(call.rows[i].LA) \/ AxisAbsent(call.rows[i].LO)) =>
                  \A j \in 1..Len(ret.val) :
                      ret.val[j].TITLE # Strip(OrEmpty(call.rows[i].TITLE))
        /\ \A j \in 1..Len(ret.val) :
              /\ ret.val[j].LA.t \in {"num", "nan", "inf"} /\ ~FEq(ret.val[j].LA, Num(0))
              /\ ret.val[j].LO.t \in {"num", "nan", "inf"} /\ ~FEq(ret.val[j].LO, Num(0))

\* C7 witness: a catalog holding a row with a zero latitude, a row with a
\* "0.0" longitude and a row that is ranked.
C7_Witness ==
    /\ RankReturned
    /\ \E i \in 1..Len(call.rows) : call.rows[i].LA = Num(0)
    /\ \E i \in 1..Len(call.rows) : call.rows[i].LO = StrNum(0)
    /\ Len(ret.val) = 1

\* C8: in the result of nearest, two entries with equal distance appear in
\* the same relative order as in the input catalog, and an entry at strictly
\* smaller distance never appears after an entry at strictly larger distance.
C8_StableAscending ==
    RankReturned =>
        \A i, j \in 1..Len(ret.val) :
            i < j =>
                /\ ~FLt(ret.val[j].DIST_KM, ret.val[i].DIST_KM)
                /\ FEq(ret.val[i].DIST_KM, ret.val[j].DIST_KM) =>
                      PosInCatalog(ret.val[i]) < PosInCatalog(ret.val[j])

(***************************************************************************)
(* Properties of origin_resolver_node (SpecResolve)                        *)
(***************************************************************************)
Resolved == call.fn = "origin_resolver_node" /\ ret # NoRet

\* The request, read from the state the resolver was called with.
ReqMode  == Lower(Strip(OrEmpty(GetText(call.state, "origin_mode"))))
ReqLabel == OrEmpty(GetText(call.state, "origin_label"))
ReqLat   == GetNum(call.state, "origin_lat")
ReqLon   == GetNum(call.state, "origin_lon")

\* Present, finite and within [lo, hi].
PresentInRange(x, lo, hi) == x.t \in {"num", "strnum"} /\ lo <= x.v /\ x.v <= hi

ReqCoordValid ==
    PresentInRange(ReqLat, -900000, 900000) /\ PresentInRange(ReqLon, -1800000, 1800000)

\* The label is a preset key or a normalized alias of one.
LabelMatchesPreset(label) ==
    \/ Strip(label) \in DOMAIN PRESET_COORDS
    \/ Lower(Strip(label)) \in DOMAIN PRESET_ALIASES

PresetOf(label) ==
    IF Strip(label) \in DOMAIN PRESET_COORDS THEN PRESET_COORDS[Strip(label)]
    ELSE PRESET_COORDS[PRESET_ALIASES[Lower(Strip(label))]]

\* C9: the resolver succeeds exactly when the mode normalizes to 'device' or
\* 'manual' and either (device) lat and lon are present, finite and in
\* range, or (manual) the label matches a preset or lat and lon are present,
\* finite and in range; otherwise it fails with a validation error and
\* returns no context.
C9_ResolverSucceedsExactlyWhenValid ==
    Resolved =>
        /\ (ret.exc = "none") <=>
              \/ ReqMode = DEVICE /\ ReqCoordValid
              \/ ReqMode = MANUAL /\ (LabelMatchesPreset(ReqLabel) \/ ReqCoordValid)
        /\ ret.exc # "none" => ret.exc = "ValueError" /\ ret.val = <<>>

\* C9 witness: manual mode, a label that is no preset and a latitude out of
\* range: the resolver has failed.
C9_Witness ==
    /\ Resolved /\ ret.exc = "ValueError" /\ ret.msg = "manual"
    /\ ReqLabel = <<"ko_gang", "ko_nam", "ko_yeok">>
    /\ ReqLat = Num(900001)

\* C10: in manual mode a label that is a preset key or a normalized alias of
\* one makes the resolver succeed with exactly the preset's coordinate as
\* origin_lat/origin_lon and as lat/lon; the caller's lat/lon are used only
\* when the label matches no preset.
C10_PresetCoordinateWins ==
    (Resolved /\ ReqMode = MANUAL) =>
        IF LabelMatchesPreset(ReqLabel)
        THEN /\ ret.exc = "none"
             /\ ret.val.origin_lat = Num(PresetOf(ReqLabel)[1])
             /\ ret.val.origin_lon = Num(PresetOf(ReqLabel)[2])
             /\ ret.val.lat = ret.val.origin_lat
             /\ ret.val.lon = ret.val.origin_lon
        ELSE ret.exc = "none" =>
             /\ ret.val.origin_lat = PyFloat(ReqLat)
             /\ ret.val.origin_lon = PyFloat(ReqLon)
             /\ ret.val.lat = ret.val.origin_lat
             /\ ret.val.lon = ret.val.origin_lon

\* C10 witness: the alias "GangNam " given together with a usable caller
\* coordinate (Namsan): the origin is Gangnam's.
C10_Witness ==
    /\ Resolved /\ ReqMode = MANUAL /\ ret.exc = "none"
    /\ ReqLabel = <<"G", "a", "n", "g", "N", "a", "m", " ">>
    /\ ReqLat = Num(NamsanLat) /\ ReqLon = Num(NamsanLon)
    /\ ret.val.lat = Num(GangnamLat) /\ ret.val.lon = Num(GangnamLon)

\* The request without one of its keys.
Without(st, k) == [x \in DOMAIN st \ {k} |-> st[x]]

ReqRadius == GetNum(call.state, "radius_km")
ReqTopn   == GetNum(call.state, "topn")

RadiusAbsentOrEmpty == ~Has(call.state, "radius_km") \/ ReqRadius.t \in {"none", "strempty"}
RadiusParsesNonNegative == PyFloat(ReqRadius).t = "num" /\ PyFloat(ReqRadius).v >= 0

C12_ResolverNeverRejectsTopn ==
    Resolved =>
        /\ ret.exc = origin_resolver_node(Without(call.state, "topn")).exc
        /\ ret.exc = "none" =>
              ret.val.topn =
                  IF ~Has(call.state, "topn") \/ PyInt(ReqTopn).t = "raise" THEN Num(5)
                  ELSE PyInt(ReqTopn)
        /\ (PyInt(ReqTopn).t = "num" /\ PyInt(ReqTopn).v < 1)
              => ensure_origin_valid(call.state) # "ok"

\* C12 witness: a topn that is no integer was replaced by 5.
C12_Witness ==
    /\ Resolved /\ ret.exc = "none" /\ ReqTopn = StrBad /\ ret.val.topn = Num(5)

\* C13: every coordinate written to the log during a run of the full
\* pipeline has at most two decimal places (degrees * 10^4 is a multiple of
\* 100), whichever node wrote it.
C13_LogHasOnlyMaskedCoordinates ==
    \A i \in 1..Len(log) :
        (entry = "run_o_to_d" /\ log[i].what = "coords") =>
            /\ log[i].lat.t = "num" => log[i].lat.v % 100 = 0
            /\ log[i].lon.t = "num" => log[i].lon.v % 100 = 0

\* C20: a run whose recommendations are empty still finishes; its answer is
\* the fixed no-results message, its sources are empty and no request was
\* sent to the remote answer service.
C20_EmptyRecommendationsSkipRemote ==
    (pc = "Done" /\ result.ctx.recommendations = <<>>) =>
        /\ result.ctx.answer = <<Line("no_results", NoneV, <<>>)>>
        /\ result.ctx.sources = <<>>
        /\ env.requests = 0
        /\ env.tier = "none"

\* C20 witness: the remote answer service was up and configured, the
\* catalog had a row, none was within the radius.
C20_Witness ==
    /\ pc = "Done" /\ result.ctx.recommendations = <<>> /\ env.aoai = "up"
    /\ result.ctx.rows # <<>> /\ env.requests = 0

(***************************************************************************)
(* Properties of the index (SpecIndex, SpecIndexRace)                      *)
(***************************************************************************)
TierOrder == <<"aoai", "tfidf", "keyword">>

Selecting == bld.pc \in {"aoai", "aoai_batch", "tfidf", "keyword"}
Selected  == bld.pc \in {"write_docs", "write_embeddings", "write_embedder"}

\* C14: in a build the embedders are tried in the order aoai, tfidf,
\* keyword, each at most once and each only after the ones before it failed
\* or were not configured; nothing is tried after one succeeded, and that
\* one is the embedder the build goes on with; keyword never fails, so a
\* build that got past tfidf goes on to keyword and every selection that
\* has ended has ended with an embedder.
C14_EmbeddersTriedInOrder ==
    LET tried == bld.tried
        n     == Len(tried)
    IN  /\ n <= Len(TierOrder)
        /\ \A i \in 1..n :
              /\ tried[i].tier = TierOrder[i]
              /\ i < n => tried[i].outcome \in {"failed", "unconfigured"}
              /\ tried[i].tier = "keyword" => tried[i].outcome = "ok"
        /\ bld.pc \in {"idle", "clear_docs", "clear_embeddings", "clear_embedder"}
              \/ Selecting \/ Selected
        /\ Selecting => (n > 0 => tried[n].outcome # "ok")
                        /\ bld.pc = (IF bld.pc = "aoai_batch" THEN "aoai_batch"
                                     ELSE TierOrder[n + 1])
        /\ Selected => /\ n > 0 /\ tried[n].outcome = "ok"
                       /\ bld.emb.name = tried[n].tier

\* C14 witness: aoai was configured and failed, tfidf failed, keyword is
\* the embedder.
C14_Witness ==
    /\ bld.pc = "write_docs"
    /\ bld.tried = <<Tried("aoai", "failed"), Tried("tfidf", "failed"),
                     Tried("keyword", "ok")>>
    /\ bld.emb.name = "keyword"


AtRest == bld.pc = "idle"

\* C15: the vectors a build goes on with, and the vectors of the index once
\* the build is over, all come from the one embedder kept with them; when a
\* batch of the embedding service failed, the build goes on with no vector
\* of that service and with another embedder; and a query is encoded by the
\* embedder of the index.
C15_OneEmbedderPerBuild ==
    /\ Selected =>
          /\ \A i \in 1..Len(bld.vecs) : bld.vecs[i].by = bld.emb.name
          /\ Tried("aoai", "failed") \in Range(bld.tried) =>
                /\ bld.emb.name # "aoai"
                /\ \A i \in 1..Len(bld.vecs) : bld.vecs[i].by # "aoai"
    /\ (Selecting /\ bld.pc # "aoai_batch") => bld.out = <<>>
    /\ (AtRest /\ index.embedder.name # "none") =>
          /\ ~index.embeddings.none
          /\ \A i \in 1..Len(index.embeddings.rows) :
                index.embeddings.rows[i].by = index.embedder.name
    /\ (AtRest /\ srch.q_vec.by # "none") => srch.q_vec.by = index.embedder.name

\* C15 witness: the first batch of the embedding service was answered, the
\* second failed, and the build goes on with the vectors of tfidf alone.
C15_Witness ==
    /\ bld.pc = "write_docs"
    /\ Len(bld.docs) > BatchSize /\ bld.i = BatchSize
    /\ bld.tried = <<Tried("aoai", "failed"), Tried("tfidf", "ok")>>
    /\ Len(bld.vecs) = Len(bld.docs) /\ bld.vecs[1].by = "tfidf"


\* What search went on to use after its opening test.
BodyReads == {r \in srch.read : r.at = "body"}

\* C16: a search that ran while build_index ran has used documents, vectors
\* and an embedder that were all written by the same build (or were all
\* there from the start).
C16_SearchSeesOneBuild ==
    srch.pc = "done" => \A r1, r2 \in BodyReads : r1.gen = r2.gen


\* C17: a search that was called with an empty query, on an index without
\* documents or on an index without embedder has returned the empty list,
\* raised nothing and asked no embedder; and once build_index([]) is over
\* the index has no documents, no vectors and no embedder, whatever it held.
C17_SearchOnNothingReturnsEmpty ==
    /\ (srch.pc = "done"
          /\ \/ OrEmpty(srch.query) = <<>>
             \/ srch.at_call.docs = <<>>
             \/ srch.at_call.embedder.name = "none"
             \/ srch.at_call.embeddings.none)
       => (srch.out = <<>> /\ srch.exc = "none" /\ srch.calls = 0)
    /\ (AtRest /\ index.docs = <<>>) =>
          (index.embeddings = NoMatrix /\ index.embedder = NoEmbedder)

\* C17 witness: the second build was build_index([]), and a search with a
\* query came back empty.
C17_Witness ==
    /\ srch.pc = "done" /\ OrEmpty(srch.query) # <<>>
    /\ srch.at_call.docs = <<>> /\ srch.at_call.gen.docs = 2
    /\ srch.out = <<>> /\ srch.exc = "none"


\* A search that got past its opening test and returned.
Answered == srch.pc = "done" /\ srch.exc = "none" /\ srch.at_call.docs # <<>>
                /\ OrEmpty(srch.query) # <<>>

\* C18: what a search on an index with documents returns has at most k
\* entries, no document twice, no entry before one of higher score, and of
\* two entries of equal score the document indexed first comes first.
C18_RankedByScoreThenInsertion ==
    Answered =>
        /\ Len(srch.out) <= srch.k
        /\ \A i, j \in 1..Len(srch.out) :
              i < j =>
                /\ srch.out[i].idx # srch.out[j].idx
                /\ ~ScoreLt(srch.out[i].SCORE, srch.out[j].SCORE)
                /\ ScoreEq(srch.out[i].SCORE, srch.out[j].SCORE)
                      => srch.out[i].idx < srch.out[j].idx


NormIsZero(v) == Dot(v, v) = 0

\* A search that encoded its query and is over.
Scored == srch.pc = "done" /\ srch.q_vec.by # "none"

\* C19: in a search that encoded its query, a query vector of norm 0 gave
\* every document the score 0 and a document vector of norm 0 gave that
\* document the score 0; the search raised nothing and returned the first
\* k documents, or all of them if there are fewer.
C19_ZeroNormScoresZero ==
    Scored =>
        /\ srch.exc = "none"
        /\ Len(srch.scores) = Len(srch.doc_mat.rows)
        /\ \A i \in 1..Len(srch.scores) :
              (NormIsZero(srch.q_vec.v) \/ NormIsZero(srch.doc_mat.rows[i].v))
                 => srch.scores[i] = Zero
        /\ Len(srch.out) = (IF srch.k < Len(srch.at_call.docs) THEN srch.k
                            ELSE Len(srch.at_call.docs))
        /\ \A i \in 1..Len(srch.out) :
              srch.out[i].SCORE = srch.scores[srch.out[i].idx + 1]

\* C19 witness: the query has a norm, one returned document has none and
\* has the score 0, another has a score.
C19_Witness ==
    /\ Scored /\ ~NormIsZero(srch.q_vec.v)
    /\ \E i, j \in 1..Len(srch.out) :
          /\ NormIsZero(srch.doc_mat.rows[srch.out[i].idx + 1].v)
          /\ srch.out[i].SCORE = Zero
          /\ srch.out[j].SCORE # Zero


\* C21: with recommendations, the answer node sends at most one request to
\* the remote answer service; when the service is not configured (no
\* request) or the one request fails, the answer is the rule-based one; and
\* no run fails in the answer node.
C21_OneRemoteAttemptThenTemplate ==
    /\ env.requests <= 1
    /\ pc = "Failed" => err.at # AgentD
    /\ (pc = "Done" /\ result.ctx.recommendations # <<>>
          /\ env.aoai \in {"unconfigured", "down"}) =>
          /\ env.tier = "template"
          /\ result.ctx.answer = TemplateAnswer(result.ctx.recommendations)
          /\ env.requests = (IF env.aoai = "down" THEN 1 ELSE 0)

\* C21 witness: the one request failed and the run ended with the
\* rule-based answer.
C21_Witness ==
    /\ pc = "Done" /\ result.ctx.recommendations # <<>>
    /\ env.aoai = "down" /\ env.requests = 1 /\ env.tier = "template"

\* C22: at the end of a run the sources are the TITLE and URL of each
\* recommendation, one entry for each and in their order, whichever tier
\* wrote the answer.
C22_SourcesFollowRecommendations ==
    pc = "Done" =>
        /\ env.tier \in {"none", "template", "remote"}
        /\ result.ctx.sources =
              [i \in 1..Len(result.ctx.recommendations) |->
                 [TITLE |-> result.ctx.recommendations[i].TITLE,
                  URL   |-> result.ctx.recommendations[i].URL]]

\* C22 witness: the remote service wrote the answer, and there are two
\* sources or more.
C22_Witness ==
    /\ pc = "Done" /\ env.tier = "remote"
    /\ Len(result.ctx.recommendations) >= 2
    /\ Len(result.ctx.sources) = Len(result.ctx.recommendations)

\* The recommendations the ranking node made of the state it was given.
Ranked ==
    LET s == IF entry = "run_o_to_d"
             THEN origin_resolver_node(run_o_to_d_state(args).val).val
             ELSE run_c_to_d_state(args).val
    IN  nearest(s.rows, PyFloat(s.lat), PyFloat(s.lon), PyInt(s.topn),
                GetNum(s, "radius_km")).val

\* C23: no run fails in the map node; when the renderer failed, map_html is
\* the error message, the answer node ran after it, and the
\* recommendations are the ones the ranking node made.
C23_RenderFailureIsInline ==
    /\ pc = "Failed" => err.at # AgentE
    /\ (Has(state, "map_html") /\ state.map_html = MapHtml("render_failed")) =>
          /\ pc \in {AgentD, "Done"}
          /\ state.recommendations # <<>>
          /\ state.recommendations = Ranked
          /\ pc = "Done" => /\ trace[Len(trace)] = AgentD
                            /\ result.ctx.map_html = MapHtml("render_failed")
                            /\ result.ctx.recommendations = Ranked

\* C23 witness: the renderer failed and the run ended with an answer.
C23_Witness ==
    /\ pc = "Done" /\ result.ctx.map_html = MapHtml("render_failed")
    /\ trace[Len(trace)] = AgentD /\ Has(result.ctx, "answer")


\* C24: a request to the embedding service that fails is caught where it
\* was sent: the build goes on to the next embedder, and a search whose
\* query could not be encoded still returns, raising nothing.
C24_EmbeddingFailureIsCaught ==
    /\ bld.exc # "RequestException"
    /\ Tried("aoai", "failed") \in Range(bld.tried) => bld.pc # "idle"
    /\ srch.pc = "done" => srch.exc # "RequestException"


(***************************************************************************)
(* Properties of fetch_page (SpecFetch)                                    *)
(***************************************************************************)
FetchReturned == call.fn = "fetch_page" /\ ret # NoRet

\* The document holds, somewhere, a message that is not one of success.
CarriesErrorMessage(body) ==
    /\ body.xml
    /\ \E e \in Range(<<body.root>> \o Below(body.root)) :
          /\ e.tag \in MsgTags
          /\ OrEmpty(e.text) # <<>>
          /\ ~Contains(e.text.s, INFO_000)

FetchShouldFail ==
    \/ ~call.key
    \/ call.transport # "answered"
    \/ ~call.body.xml
    \/ CarriesErrorMessage(call.body)

\* C25: fetch_page raises nothing; without key, on a timeout, on a network
\* or HTTP error, on a body that is no XML and on a document that carries a
\* message other than INFO-000 it returns ok = False with an error and no
\* data; it returns ok = True, without error, only in no such case.
C25_FetchPageReportsErrors ==
    FetchReturned =>
        /\ ret.exc = "none" /\ ~ret.val.raised
        /\ FetchShouldFail =>
              (~ret.val.ok /\ ret.val.error # NoError /\ ret.val.data = NoData)
        /\ ret.val.ok => (ret.val.error = NoError /\ ~FetchShouldFail)


\* C26: between calls of build_index the index has as many vectors as
\* documents, and vector i is what the embedder of the index makes of the
\* text of document i (an index without documents has no vectors).
C26_VectorsAlignedWithDocuments ==
    AtRest =>
        IF index.docs = <<>> THEN index.embeddings = NoMatrix
        ELSE /\ ~index.embeddings.none
             /\ Len(index.embeddings.rows) = Len(index.docs)
             /\ \A i \in 1..Len(index.docs) :
                   index.embeddings.rows[i] = encode(index.embedder, index.docs[i].text)

\* C30: when build_index has raised, the index is as the call found it:
\* documents, vectors and embedder.
C30_FailedBuildLeavesIndex ==
    /\ (AtRest /\ bld.exc # "none") =>
          /\ index.docs = bld.before.docs
          /\ index.embeddings = bld.before.embeddings
          /\ index.embedder = bld.before.embedder
    /\ (~AtRest /\ bld.pc \notin {"write_embeddings", "write_embedder",
                                  "clear_embeddings", "clear_embedder"}) =>
          index = bld.before

\* C30 witness: the second build raised while its vectors were made into
\* an array, and the index still holds the documents of the first.
C30_Witness ==
    /\ AtRest /\ bld.exc = "ValueError" /\ bld.n = 2
    /\ index.docs # <<>> /\ index.gen.docs = 1 /\ index = bld.before


(***************************************************************************)
(* The state the caller holds after a failed resolution (SpecResolve)      *)
(***************************************************************************)
\* C27: when the origin resolver fails, the error message is recorded under
\* the 'error' key of the pipeline state before the exception is raised:
\* the state held by the caller then has an 'error' key.
C27_CallerStateCarriesError ==
    (Resolved /\ ret.exc # "none") => Has(call.state, "error")


(***************************************************************************)
(* What the recommender is handed in a run of run_o_to_d (Spec)            *)
(***************************************************************************)
\* A finite number within [lo, hi].
FiniteWithin(x, lo, hi) == x.t = "num" /\ lo <= x.v /\ x.v <= hi

\* C28: in every run started through run_o_to_d, whenever Rank executes the
\* state has lat and lon finite, within [-90, 90] x [-180, 180] and equal to
\* the resolved origin_lat / origin_lon, topn an integer >= 1, and radius_km
\* either None or a number >= 0.
C28_RankRequestIsValid ==
    (entry = "run_o_to_d" /\ pc = AgentC) =>
        /\ Has(state, "lat") /\ Has(state, "lon")
        /\ FiniteWithin(state.lat, -900000, 900000)
        /\ FiniteWithin(state.lon, -1800000, 1800000)
        /\ state.lat = state.origin_lat /\ state.lon = state.origin_lon
        /\ state.topn.t = "num" /\ state.topn.v >= 1
        /\ LET radius_km == GetNum(state, "radius_km")
           IN  \/ radius_km.t = "none"
               \/ radius_km.t \in {"num", "inf"} /\ FLe(Num(0), radius_km)


(***************************************************************************)
(* Properties of the rule-based answer (SpecSynthesize)                    *)
(***************************************************************************)
Synthesized == call.fn = "agent_d" /\ ret # NoRet

\* The lines of the sources block of an answer.
SourcesBlock(answer) == SelectSeq(answer, LAMBDA l : l.k = "source")

\* What a line of the block shows of one entry of 'sources'.
ShownOf(src) == <<OrText(src.TITLE, NO_TITLE), src.URL>>

\* C29, as stated: when the template wrote the answer, the sources block of
\* the answer lists the same recommendations, in the same order and in the
\* same number, as the 'sources' output, for any number of recommendations.
C29_SourcesBlockListsAllSources ==
    (Synthesized /\ ret.tier = "template") =>
        LET block   == SourcesBlock(ret.val.answer)
            sources == ret.val.sources
        IN  /\ Len(block) = Len(sources)
            /\ \A i \in 1..Len(block) : block[i].f = ShownOf(sources[i])

\* C29, amended: when the template wrote the answer, the sources block
\* lists the first five entries of 'sources' (all of them when there are
\* five or fewer), in the same order.
C29_SourcesBlockListsFirstFive ==
    (Synthesized /\ ret.tier = "template") =>
        LET block   == SourcesBlock(ret.val.answer)
            sources == ret.val.sources
        IN  /\ Len(block) = (IF Len(sources) < 5 THEN Len(sources) ELSE 5)
            /\ \A i \in 1..Len(block) : block[i].f = ShownOf(sources[i])

\* C29 witness: the template wrote an answer for six recommendations, whose
\* block has five lines.
C29_Witness ==
    /\ Synthesized /\ ret.tier = "template"
    /\ Len(ret.val.sources) = 6 /\ Len(SourcesBlock(ret.val.answer)) = 5

=============================================================================
